---------------------------- MODULE Spec2Model ----------------------------
(***************************************************************************)
(* Model of the ADC driver of stm32wl-hal (hal/src/adc.rs): the register   *)
(* file of the converter, the hardware that reacts to register writes, the *)
(* foreground task that calls the driver, the ADC interrupt handler and    *)
(* the mailbox (ADC_RESULT, ADC_WAKER) between them.                       *)
(*                                                                         *)
(* Registers whose value is used arithmetically (SMPR, CHSELR, DR,         *)
(* CALFACT) are integers; CR, ISR, IER and CCR are sets of the names of    *)
(* the bits that are 1.                                                    *)
(***************************************************************************)
EXTENDS Integers, Sequences, FiniteSets, TLC

VARIABLES
    cr,          \* ADC_CR: subset of CrBits
    isr,         \* ADC_ISR: subset of IsrBits
    ier,         \* ADC_IER: subset of IsrBits (the enable of the same-named flag)
    ccr,         \* ADC_CCR: subset of {"TSEN", "VREFEN", "VBATEN"}
    chselr,      \* ADC_CHSELR as written by the driver
    ch_pending,  \* a CHSELR write the hardware has not applied yet
    applied,     \* the channel configuration the hardware has latched
    smpr,        \* ADC_SMPR
    dr,          \* ADC_DR
    calfact,     \* ADC_CALFACT
    cfgr1,       \* ADC_CFGR1: subset of {"DMAEN"}
    starting,    \* the converter is starting up after ADEN was set
    nvic,        \* the ADC interrupt is unmasked in the NVIC
    ts_cal,      \* factory constants <<TS_CAL1, TS_CAL2>>
    dbg,         \* the build checks debug assertions and integer overflow
    pc,          \* the foreground task's position: "idle" between calls
    poll,        \* its position inside aio::poll, "none" outside
    call,        \* the driver call in progress or last completed (see Begin)
    adc_result,  \* aio::ADC_RESULT, the status word as its set of flags
    waker,       \* aio::ADC_WAKER holds a registered waker
    woken,       \* the task was woken and the executor polls it again
    doc,         \* the documented example the application runs, and its line
    fcr,         \* FLASH_CR: subset of FlashCrBits
    fpnb,        \* FLASH_CR.PNB, the page number field
    fsr,         \* FLASH_SR: subset of FlashSrBits
    fmem,        \* the flash words of the row the application programs
    fpc,         \* the position inside the flash driver, "none" with no Flash
    fcall,       \* the flash call in progress or last completed
    fsize,       \* info::flash_size_kibibyte()
    rpc,         \* the position inside the Sx126x driver, "idle" between calls
    rcall,       \* the radio call in progress or last completed
    rlog,        \* the steps that call has taken: radio commands, RF switch
    rirq,        \* the radio's interrupt status: subset of IrqBits
    rmode        \* the radio's operating mode: "standby", "tx" or "rx"

hw == <<cr, isr, ier, ccr, chselr, ch_pending, applied, smpr, dr, calfact,
        cfgr1, starting>>
adc == <<hw, nvic, ts_cal, dbg, pc, poll, call, adc_result, waker, woken, doc>>
flash == <<fcr, fpnb, fsr, fmem, fpc, fcall, fsize>>
radio == <<rpc, rcall, rlog, rirq, rmode>>
vars == <<cr, isr, ier, ccr, chselr, ch_pending, applied, smpr, dr, calfact,
          cfgr1, starting, nvic, ts_cal, dbg, pc, poll, call, adc_result, waker,
          woken, doc, fcr, fpnb, fsr, fmem, fpc, fcall, fsize, rpc, rcall,
          rlog, rirq, rmode>>

---------------------------------------------------------------------------
(* Integer helpers: the widths and the bitwise operators of the source.    *)

Pow2(n) == 2 ^ n

RECURSIVE BitAnd(_, _)
BitAnd(a, b) ==
    IF a = 0 \/ b = 0 THEN 0
    ELSE ((a % 2) * (b % 2)) + 2 * BitAnd(a \div 2, b \div 2)

RECURSIVE BitOr(_, _)
BitOr(a, b) ==
    IF a = 0 THEN b
    ELSE IF b = 0 THEN a
    ELSE (IF (a % 2) + (b % 2) > 0 THEN 1 ELSE 0) + 2 * BitOr(a \div 2, b \div 2)

\* a << n on a u32: the bits shifted past bit 31 are lost
Shl32(a, n) == (a % Pow2(32 - n)) * Pow2(n)

TestBit(a, n) == (a \div Pow2(n)) % 2 = 1

Abs(x) == IF x < 0 THEN -x ELSE x

\* Rust's integer division truncates toward zero
TruncDiv(a, b) ==
    IF (a >= 0) = (b >= 0) THEN Abs(a) \div Abs(b) ELSE -(Abs(a) \div Abs(b))

RECURSIVE GcdNat(_, _)
GcdNat(a, b) == IF b = 0 THEN a ELSE GcdNat(b, a % b)

\* num_integer::Integer::gcd on i16: the non-negative greatest common divisor
Gcd(a, b) == GcdNat(Abs(a), Abs(b))

InI16(x) == x >= -32768 /\ x <= 32767

\* the low 16 bits of x read as an i16 (`as i16`, and what a wrapped i16 holds)
WrapI16(x) == LET m == x % 65536 IN IF m >= 32768 THEN m - 65536 ELSE m

\* u16::wrapping_sub
WrappingSubU16(a, b) == (a - b) % 65536

\* u16::saturating_add
SaturatingAddU16(a, b) == IF a + b > 65535 THEN 65535 ELSE a + b

---------------------------------------------------------------------------
(* Channels and sample times.                                              *)

TS_CAL1_TEMP == 30
TS_CAL2_TEMP == 130
TS_CAL_TEMP_DELTA == TS_CAL2_TEMP - TS_CAL1_TEMP

\* const CH_MASK: u32 = 0x13FFF
CH_MASK == 81919

\* enum Ch: the discriminant of every variant
Ch == [In0 |-> 0, In1 |-> 1, In2 |-> 2, In3 |-> 3, In4 |-> 4, In5 |-> 5,
       In6 |-> 6, In7 |-> 7, In8 |-> 8, In9 |-> 9, In10 |-> 10, In11 |-> 11,
       Vts |-> 12, Vref |-> 13, Vbat |-> 14, Dac |-> 17]

ChNames == DOMAIN Ch

\* Ch::mask
mask(c) == Pow2(Ch[c])

\* enum Ts: the discriminant of every variant
Ts == [Cyc1 |-> 0, Cyc3 |-> 1, Cyc7 |-> 2, Cyc12 |-> 3, Cyc19 |-> 4,
       Cyc39 |-> 5, Cyc79 |-> 6, Cyc160 |-> 7]

\* the word set_sample_times writes to ADC_SMPR
SmprWord(m, sel0, sel1) ==
    BitOr(BitOr(Shl32(BitAnd(m, CH_MASK), 8), Shl32(sel1, 4)), sel0)

\* ADC_SMPR as the hardware reads it: SMP1 is bits 2:0, SMP2 bits 6:4 and
\* SMPSELx bit 8+x chooses SMP2 (1) or SMP1 (0) for channel x
SampleTimeOf(word, c) ==
    IF TestBit(word, 8 + Ch[c]) THEN (word \div 16) % 8 ELSE word % 8

---------------------------------------------------------------------------
(* num_rational::Ratio<i16>, as temperature() uses it.  A ratio is a record *)
(* of its numerator and denominator; ovf records that an i16 operation on  *)
(* the way left the i16 range (a panic in a build with overflow checks, a  *)
(* wrapped value otherwise).                                               *)

\* Ratio::new: reduce to lowest terms with a positive denominator
RatioNew(n, d, o) ==
    IF d = 0 THEN [numer |-> n, denom |-> 0, ovf |-> TRUE]
    ELSE IF n = 0 THEN [numer |-> 0, denom |-> 1, ovf |-> o]
    ELSE IF n = d THEN [numer |-> 1, denom |-> 1, ovf |-> o]
    ELSE LET g  == Gcd(n, d)
             n1 == TruncDiv(n, g)
             d1 == TruncDiv(d, g)
         IN  IF d1 < 0
             THEN [numer |-> WrapI16(0 - n1), denom |-> WrapI16(0 - d1),
                   ovf |-> o \/ ~InI16(0 - n1) \/ ~InI16(0 - d1)]
             ELSE [numer |-> n1, denom |-> d1, ovf |-> o]

\* impl Mul<i16> for Ratio<i16>: a/b * c = (a * (c / gcd(b, c))) / (b / gcd(b, c))
RatioMul(r, rhs) ==
    LET g == Gcd(r.denom, rhs)
        p == r.numer * TruncDiv(rhs, g)
    IN  RatioNew(WrapI16(p), TruncDiv(r.denom, g), r.ovf \/ ~InI16(p))

\* impl Add<i16> for Ratio<i16>: a/b + c = (a + b * c) / b
RatioAdd(r, rhs) ==
    LET m == r.denom * rhs
        s == r.numer + WrapI16(m)
    IN  RatioNew(WrapI16(s), r.denom, r.ovf \/ ~InI16(m) \/ ~InI16(s))

\* a faulty variant of TemperatureOf (see the faulty variants below): the
\* calibration factor is taken off the sample instead of added to it
TemperatureOf_sub(data, cf, cal1, cal2) ==
    LET slope   == RatioNew(TS_CAL_TEMP_DELTA, WrapI16(WrappingSubU16(cal2, cal1)), FALSE)
        ts_data == IF data > cf THEN data - cf ELSE 0
    IN  RatioAdd(RatioMul(slope, WrapI16(WrappingSubU16(ts_data, cal1))), TS_CAL1_TEMP)

\* the arithmetic of temperature() and aio_temperature() on the sample `data`
\* read from ADC_DR, the calibration factor cf and the factory constants
TemperatureOf(data, cf, cal1, cal2) ==
    LET slope   == RatioNew(TS_CAL_TEMP_DELTA, WrapI16(WrappingSubU16(cal2, cal1)), FALSE)
        ts_data == SaturatingAddU16(data, cf)
    IN  RatioAdd(RatioMul(slope, WrapI16(WrappingSubU16(ts_data, cal1))), TS_CAL1_TEMP)

---------------------------------------------------------------------------
(* The converter hardware.                                                 *)

CrBits  == {"ADEN", "ADDIS", "ADSTART", "ADSTP", "ADCAL", "ADVREGEN"}
IsrBits == {"ADRDY", "EOSMP", "EOC", "EOS", "OVR", "AWD1", "AWD2", "AWD3",
            "EOCAL", "CCRDY"}

\* A write of the word w (the set of its 1 bits) to ADC_CR.  ADVREGEN is a
\* plain read/write bit; the others are set-only and a 1 is accepted only in
\* the states the reference manual allows (ADDIS needs ADEN = 1 and
\* ADSTART = 0, ADCAL needs ADEN = 0, ...); hardware clears them.
CrWrite(old, w) ==
    LET busy == old \cap {"ADEN", "ADDIS", "ADSTART", "ADSTP", "ADCAL"}
        en    == IF "ADEN" \in w /\ busy = {} THEN {"ADEN"} ELSE {}
        dis   == IF "ADDIS" \in w /\ "ADEN" \in old /\ "ADSTART" \notin old
                 THEN {"ADDIS"} ELSE {}
        start == IF "ADSTART" \in w /\ "ADEN" \in old /\ "ADDIS" \notin old
                 THEN {"ADSTART"} ELSE {}
        stp   == IF "ADSTP" \in w /\ "ADSTART" \in old /\ "ADDIS" \notin old
                 THEN {"ADSTP"} ELSE {}
        cal   == IF "ADCAL" \in w /\ "ADEN" \notin old THEN {"ADCAL"} ELSE {}
        reg   == IF busy = {} THEN w \cap {"ADVREGEN"} ELSE old \cap {"ADVREGEN"}
    IN  busy \cup en \cup dis \cup start \cup stp \cup cal \cup reg

\* cr.modify(|_, w| w.<bit>().set_bit()): read the register, write it back
\* with the bit set
CrModify(old, bit) == CrWrite(old, old \cup {bit})

\* A write of the word w to ADC_ISR: every flag is cleared by writing 1 to it
IsrWrite(old, w) == old \ w

\* Adc::is_enabled
is_enabled == "ADEN" \in cr

\* Adc::is_disabled
is_disabled == "ADEN" \notin cr /\ "ADDIS" \notin cr

\* The ADC interrupt is pending: a flag whose interrupt is enabled in IER is
\* set and the line is unmasked in the NVIC.  The handler then preempts the
\* foreground task, which runs only while no interrupt is pending.
IrqPending == nvic /\ isr \cap ier # {}
Foreground == ~IrqPending

\* ADC_DR after a conversion of the analog code `a`: the hardware removes the
\* calibration factor from the sample
Converted(a, cf) == IF a > cf THEN a - cf ELSE 0

\* the analog code present on the input the latched configuration selects
\* (one code per source; the temperature sensor's varies)
AnalogCodes(m) ==
    IF m = mask("Vts") THEN {940}
    ELSE IF m = mask("Vref") THEN {1500}
    ELSE IF m = mask("Vbat") THEN {1365}
    ELSE {0}

\* the calibration factors a calibration run may produce (7 bits)
CalFacts == {64}

\* ADRDY: the converter has started up
HwReady ==
    /\ starting /\ "ADEN" \in cr
    /\ isr' = isr \cup {"ADRDY"}
    /\ starting' = FALSE
    /\ UNCHANGED <<cr, ier, ccr, chselr, ch_pending, applied, smpr, dr, calfact,
                   nvic, ts_cal, dbg, pc, poll, call, adc_result, waker, woken,
                   cfgr1, doc, flash, radio>>

\* a disable request completes: ADEN and ADDIS are cleared together
HwDisable ==
    /\ "ADDIS" \in cr
    /\ cr' = cr \ {"ADEN", "ADDIS"}
    /\ starting' = FALSE
    /\ UNCHANGED <<isr, ier, ccr, chselr, ch_pending, applied, smpr, dr, calfact,
                   nvic, ts_cal, dbg, pc, poll, call, adc_result, waker, woken,
                   cfgr1, doc, flash, radio>>

\* a stop request completes: the conversion is aborted, ADSTP and ADSTART clear
HwStop ==
    /\ "ADSTP" \in cr
    /\ cr' = cr \ {"ADSTP", "ADSTART"}
    /\ UNCHANGED <<isr, ier, ccr, chselr, ch_pending, applied, smpr, dr, calfact,
                   starting, nvic, ts_cal, dbg, pc, poll, call, adc_result, waker,
                   woken, cfgr1, doc, flash, radio>>

\* the channel configuration written to CHSELR is applied: CCRDY
HwLatch ==
    /\ ch_pending
    /\ applied' = chselr
    /\ ch_pending' = FALSE
    /\ isr' = isr \cup {"CCRDY"}
    /\ UNCHANGED <<cr, ier, ccr, chselr, smpr, dr, calfact, starting, nvic, ts_cal,
                   dbg, pc, poll, call, adc_result, waker, woken, cfgr1, doc,
                   flash, radio>>

\* a single conversion of the latched channel ends: EOSMP, EOC, EOS (and OVR
\* with the old data kept when the previous result was not read)
HwConvert ==
    /\ "ADSTART" \in cr /\ "ADSTP" \notin cr /\ ~starting
    /\ \E a \in AnalogCodes(applied) :
          dr' = IF "EOC" \in isr THEN dr ELSE Converted(a, calfact)
    /\ isr' = isr \cup {"EOSMP", "EOC", "EOS"}
                  \cup (IF "EOC" \in isr THEN {"OVR"} ELSE {})
    /\ cr' = cr \ {"ADSTART"}
    /\ UNCHANGED <<ier, ccr, chselr, ch_pending, applied, smpr, calfact, starting,
                   nvic, ts_cal, dbg, pc, poll, call, adc_result, waker, woken,
                   cfgr1, doc, flash, radio>>

\* calibration ends: ADCAL is cleared, EOCAL set, the factor loaded
HwCalDone ==
    /\ "ADCAL" \in cr
    /\ cr' = cr \ {"ADCAL"}
    /\ isr' = isr \cup {"EOCAL"}
    /\ calfact' \in CalFacts
    /\ UNCHANGED <<ier, ccr, chselr, ch_pending, applied, smpr, dr, starting, nvic,
                   ts_cal, dbg, pc, poll, call, adc_result, waker, woken,
                   cfgr1, doc, flash, radio>>

---------------------------------------------------------------------------
(* Faulty variants of definitions below; each property that holds of the    *)
(* driver is required to fail on one of them.                              *)

\* set_chsel filtering its argument with CH_MASK
set_chsel_masked(ch) == BitAnd(ch, CH_MASK)

\* start_enable running the enable sequence whatever ADEN reads
start_enable_always(c) == TRUE

\* a measurement that scales the battery sample by the divider ratio
Sample_scaled(fn, data) == IF fn = "vbat" THEN 3 * data ELSE data

\* start_disable going on to the disable request without waiting for the
\* stop to be acknowledged
start_disable_nowait ==
    /\ Foreground
    /\ pc = "sd_wait"
    /\ pc' = "sd_aden"
    /\ UNCHANGED <<hw, nvic, ts_cal, dbg, poll, call, adc_result, waker, woken,
                   doc, flash, radio>>

---------------------------------------------------------------------------
(* The flash peripheral before any Flash value exists, and the application *)
(* outside the documented examples.                                        *)

\* the bits of FLASH_CR the driver writes or relies on
FlashCrBits == {"LOCK", "PG", "FSTPG", "PER", "MER", "STRT"}

\* mod flags, and EOP which clear_all_err clears with the error flags
FlashErrBits == {"PROGERR", "WRPERR", "PGAERR", "SIZERR", "PGSERR", "MISSERR"}
FlashSrBits == FlashErrBits \cup {"BSY", "PESD", "EOP"}

\* the words of one fast-programming row (64 words, 256 bytes)
RowWords == 0 .. 63

\* A 32-bit flash or buffer word is held as the set of its bit positions
\* that are 0: programming can only clear bits.  An erased word reads
\* 0xFFFF_FFFF and has none.
ErasedWord == {}

\* Option<Page>: None, or Some of a page
None == <<>>
Some(p) == <<p>>

\* no flash call has been made.  arg is the integer argument, opt an
\* Option<Page> result, addr a usize result, src the page an address was
\* taken of; from, to, ret, writes, entry and erased belong to the program
\* and erase calls (see FlashBegin)
NoFlashCall ==
    [op |-> "none", arg |-> 0, opt |-> None, addr |-> 0, src |-> None,
     from |-> 0, to |-> 0, ret |-> "none", writes |-> <<>>, entry |-> {},
     erased |-> FALSE]

\* no documented example is being run
NoDoc == [ex |-> "none", at |-> 0]

\* the flash as the boot leaves it: locked, idle, the row erased
FlashReset ==
    /\ fcr = {"LOCK"} /\ fpnb = 0 /\ fsr = {}
    /\ fmem = [w \in RowWords |-> ErasedWord]
    /\ fpc = "none" /\ fcall = NoFlashCall
    /\ fsize = 256

\* the interrupts IRQ_CFG enables
IrqBits == {"RxDone", "Timeout", "TxDone", "Err"}

\* no radio call yet: op the operation, len the length of the data passed,
\* status the interrupt status the call read, ret what it returned ("none"
\* until it returns)
NoRadioCall == [op |-> "none", len |-> 0, status |-> {}, ret |-> "none"]

\* the radio after Sx126x::new
RadioReset ==
    /\ rpc = "idle" /\ rcall = NoRadioCall /\ rlog = <<>>
    /\ rirq = {} /\ rmode = "standby"

---------------------------------------------------------------------------
(* The foreground task.  `call` records the driver call in progress or     *)
(* last completed: its function, its arguments, whether a conversion was   *)
(* active when start_disable was entered, whether it has returned, and     *)
(* what it returned (val for u16 and bool results, ratio for Ratio<i16>,   *)
(* word for the last Poll::Ready value, cf for the calibration factor      *)
(* temperature() read).  overrun is history: the interrupt handler stored  *)
(* over a result that no poll had taken out of ADC_RESULT.  vreg_us is the *)
(* time the call has spent in its delay with the voltage regulator on.     *)
(* stale is history: when the call began a dropped wait had left a word in *)
(* the slot, an interrupt enabled, the end-of-calibration flag raised or a *)
(* calibration running.                                                    *)

ZeroRatio == [numer |-> 0, denom |-> 1, ovf |-> FALSE]

Begin(fn) == [fn |-> fn, args |-> <<0, 0, 0>>, active |-> FALSE, done |-> FALSE,
              val |-> 0, cf |-> 0, word |-> {}, ratio |-> ZeroRatio,
              overrun |-> FALSE, vreg_us |-> 0,
              stale |-> (adc_result # {} \/ ier # {} \/ "EOCAL" \in isr
                            \/ "ADCAL" \in cr)]

BlockingMeas == {"temperature", "vref", "vbat"}
\* dac() and pin() (of a pin on channel In0): no analog source of their own
UnsourcedMeas == {"dac", "pin"}
AsyncMeas    == {"aio_temperature", "aio_vref"}

\* the channel each measurement selects and the analog source it requires
ChOf(fn) == IF fn \in {"temperature", "aio_temperature"} THEN "Vts"
            ELSE IF fn \in {"vref", "aio_vref"} THEN "Vref"
            ELSE IF fn = "vbat" THEN "Vbat"
            ELSE IF fn = "dac" THEN "Dac" ELSE "In0"
SourceOf(fn) == IF fn \in {"temperature", "aio_temperature"} THEN "TSEN"
                ELSE IF fn \in {"vref", "aio_vref"} THEN "VREFEN"
                ELSE IF fn = "vbat" THEN "VBATEN" ELSE "NONE"

\* debug assertions that check the converter only
MeasPre_enabled_only(fn) == is_enabled

\* the debug assertions at the head of a measurement
MeasPre(fn) == is_enabled /\ (SourceOf(fn) = "NONE" \/ SourceOf(fn) \in ccr)

\* Adc::set_chsel: the word that reaches the 18-bit CHSEL field of CHSELR
set_chsel(ch) == ch % Pow2(18)

\* Adc::start_enable: the enable sequence is needed (returns true)
start_enable(c) == "ADEN" \notin c

\* what a measurement returns for the sample `data` read from ADC_DR
Sample(fn, data) == data

\* the factory constants of the chip
Anchors == {<<922, 1723>>}

Init ==
    /\ cr = {} /\ isr = {} /\ ier = {} /\ ccr = {}
    /\ chselr = 0 /\ ch_pending = FALSE /\ applied = 0
    /\ smpr = 0 /\ dr = 0 /\ calfact = 0 /\ cfgr1 = {} /\ starting = FALSE
    /\ nvic = FALSE
    /\ ts_cal \in Anchors
    /\ dbg \in BOOLEAN
    /\ pc = "idle" /\ poll = "none"
    /\ adc_result = {} /\ waker = FALSE /\ woken = FALSE
    /\ doc = NoDoc /\ FlashReset /\ RadioReset
    /\ call = [Begin("new") EXCEPT !.done = TRUE]

\* enable_tsen, enable_vref, enable_vbat and their disable counterparts
enable_source(b) ==
    /\ Foreground
    /\ pc = "idle"
    /\ ccr' = ccr \cup {b}
    /\ UNCHANGED <<cr, isr, ier, chselr, ch_pending, applied, smpr, dr, calfact,
                   starting, nvic, ts_cal, dbg, pc, poll, call, adc_result, waker,
                   woken, cfgr1, doc, flash, radio>>

disable_source(b) ==
    /\ Foreground
    /\ pc = "idle"
    /\ ccr' = ccr \ {b}
    /\ UNCHANGED <<cr, isr, ier, chselr, ch_pending, applied, smpr, dr, calfact,
                   starting, nvic, ts_cal, dbg, pc, poll, call, adc_result, waker,
                   woken, cfgr1, doc, flash, radio>>

\* Adc::unmask_irq and Adc::mask_irq
set_irq_mask(unmasked) ==
    /\ Foreground
    /\ pc = "idle"
    /\ nvic' = unmasked
    /\ UNCHANGED <<cr, isr, ier, ccr, chselr, ch_pending, applied, smpr, dr,
                   calfact, starting, ts_cal, dbg, pc, poll, call, adc_result,
                   waker, woken, cfgr1, doc, flash, radio>>

\* Adc::set_sample_times, entered as the call fn of the application
set_sample_times_as(fn, m, sel0, sel1) ==
    /\ Foreground
    /\ pc = "idle"
    /\ call' = [Begin(fn) EXCEPT
                  !.args = <<m, sel0, sel1>>,
                  !.done = ~(dbg /\ "ADSTART" \in cr)]
    /\ IF dbg /\ "ADSTART" \in cr
       THEN pc' = "panic" /\ smpr' = smpr
       ELSE pc' = pc /\ smpr' = SmprWord(m, sel0, sel1)
    /\ UNCHANGED <<cr, isr, ier, ccr, chselr, ch_pending, applied, dr, calfact,
                   starting, nvic, ts_cal, dbg, poll, adc_result, waker, woken,
                   cfgr1, doc, flash, radio>>

\* Adc::set_sample_times
set_sample_times(m, sel0, sel1) ==
    set_sample_times_as("set_sample_times", m, sel0, sel1)

\* a faulty variant of set_max_sample_time: the maximum goes to the second
\* selector only, which no channel is switched to
set_max_sample_time_smp2 ==
    set_sample_times_as("set_max_sample_time", 0, Ts.Cyc1, Ts.Cyc160)

\* Adc::set_max_sample_time
set_max_sample_time ==
    set_sample_times_as("set_max_sample_time", 0, Ts.Cyc160, Ts.Cyc160)

\* a faulty variant of enable_call: aio_enable arms the ready interrupt and
\* waits also when the converter is already enabled
enable_call_armed(fn) ==
    /\ Foreground
    /\ pc = "idle"
    /\ IF start_enable(cr)
       THEN /\ isr' = IsrWrite(isr, {"ADRDY"})
            /\ cr' = CrWrite(cr, {"ADEN"})
            /\ starting' = ("ADEN" \in cr')
            /\ call' = Begin(fn)
            /\ IF fn = "enable"
               THEN pc' = "en_wait" /\ UNCHANGED <<ier, poll>>
               ELSE pc' = "en_await" /\ ier' = {"ADRDY"} /\ poll' = "reg"
       ELSE /\ UNCHANGED <<cr, isr, starting>>
            /\ IF fn = "enable"
               THEN /\ call' = [Begin(fn) EXCEPT !.done = TRUE]
                    /\ UNCHANGED <<ier, pc, poll>>
               ELSE /\ call' = Begin(fn)
                    /\ pc' = "en_await" /\ ier' = {"ADRDY"} /\ poll' = "reg"
    /\ UNCHANGED <<ccr, chselr, ch_pending, applied, smpr, dr, calfact, nvic,
                   ts_cal, dbg, adc_result, waker, woken, cfgr1, doc, flash,
                   radio>>

\* Adc::enable and Adc::aio_enable up to their wait: start_enable, and for
\* aio_enable the ready interrupt armed and the first poll begun
enable_call(fn) ==
    /\ Foreground
    /\ pc = "idle"
    /\ IF start_enable(cr)
       THEN /\ isr' = IsrWrite(isr, {"ADRDY"})
            /\ cr' = CrWrite(cr, {"ADEN"})
            /\ starting' = ("ADEN" \in cr')
            /\ call' = Begin(fn)
            /\ IF fn = "enable"
               THEN pc' = "en_wait" /\ UNCHANGED <<ier, poll>>
               ELSE pc' = "en_await" /\ ier' = {"ADRDY"} /\ poll' = "reg"
       ELSE /\ call' = [Begin(fn) EXCEPT !.done = TRUE]
            /\ UNCHANGED <<cr, isr, ier, starting, pc, poll>>
    /\ UNCHANGED <<ccr, chselr, ch_pending, applied, smpr, dr, calfact, nvic,
                   ts_cal, dbg, adc_result, waker, woken, cfgr1, doc, flash,
                   radio>>

\* Adc::enable: while self.adc.isr.read().adrdy().is_not_ready() {}
enable_wait ==
    /\ Foreground
    /\ pc = "en_wait"
    /\ "ADRDY" \in isr
    /\ pc' = "idle"
    /\ call' = [call EXCEPT !.done = TRUE, !.val = 1]
    /\ UNCHANGED <<hw, nvic, ts_cal, dbg, poll, adc_result, waker, woken,
                   doc, flash, radio>>

\* Adc::aio_enable after its wait resolved
enable_ready ==
    /\ Foreground
    /\ pc = "en_await" /\ poll = "ready"
    /\ pc' = "idle" /\ poll' = "none"
    /\ call' = [call EXCEPT !.done = TRUE, !.val = 1]
    /\ UNCHANGED <<hw, nvic, ts_cal, dbg, adc_result, waker, woken, doc,
                   flash, radio>>

\* Adc::start_disable, also as the first step of setup_calibrate: the read
\* of ADSTART that decides whether a stop is needed
start_disable_call(fn) ==
    /\ Foreground
    /\ pc = "idle"
    /\ call' = [Begin(fn) EXCEPT !.active = ("ADSTART" \in cr)]
    /\ pc' = IF "ADSTART" \in cr THEN "sd_stop" ELSE "sd_aden"
    /\ UNCHANGED <<hw, nvic, ts_cal, dbg, poll, adc_result, waker, woken,
                   doc, flash, radio>>

\* self.adc.cr.modify(|_, w| w.adstp().stop_conversion())
start_disable_stop ==
    /\ Foreground
    /\ pc = "sd_stop"
    /\ cr' = CrModify(cr, "ADSTP")
    /\ pc' = "sd_wait"
    /\ UNCHANGED <<isr, ier, ccr, chselr, ch_pending, applied, smpr, dr, calfact,
                   starting, nvic, ts_cal, dbg, poll, call, adc_result, waker,
                   woken, cfgr1, doc, flash, radio>>

\* while self.adc.cr.read().adstp().bit_is_set() {}
start_disable_wait ==
    /\ Foreground
    /\ pc = "sd_wait"
    /\ "ADSTP" \notin cr
    /\ pc' = "sd_aden"
    /\ UNCHANGED <<hw, nvic, ts_cal, dbg, poll, call, adc_result, waker, woken,
                   doc, flash, radio>>

\* if ADEN is set, request the disable; start_disable returns here, and
\* setup_calibrate goes on to wait for is_disabled()
start_disable_addis ==
    /\ Foreground
    /\ pc = "sd_aden"
    /\ cr' = IF "ADEN" \in cr THEN CrModify(cr, "ADDIS") ELSE cr
    /\ IF call.fn = "start_disable"
       THEN pc' = "idle" /\ call' = [call EXCEPT !.done = TRUE]
       ELSE pc' = "cal_dis_wait" /\ call' = call
    /\ UNCHANGED <<isr, ier, ccr, chselr, ch_pending, applied, smpr, dr, calfact,
                   starting, nvic, ts_cal, dbg, poll, adc_result, waker, woken,
                   cfgr1, doc, flash, radio>>

\* cfgr1.write(|w| w.dmaen().clear_bit()): the register is written from its
\* reset value with DMAEN clear
Cfgr1Write(w) == w \cap {"DMAEN"}

\* setup_calibrate: while !self.is_disabled() {}, then the voltage regulator
\* enabled and CFGR1 written with DMAEN clear
setup_calibrate ==
    /\ Foreground
    /\ pc = "cal_dis_wait"
    /\ is_disabled
    /\ cr' = CrWrite(cr, {"ADVREGEN"})
    /\ cfgr1' = Cfgr1Write({})
    /\ pc' = "cal_delay"
    /\ UNCHANGED <<isr, ier, ccr, chselr, ch_pending, applied, smpr, dr, calfact,
                   starting, nvic, ts_cal, dbg, poll, call, adc_result, waker,
                   woken, doc, flash, radio>>

\* the regulator setup time, in microseconds
T_ADCVREG_SETUP_MICROS == 20

\* delay.delay_us(T_ADCVREG_SETUP_MICROS) in calibrate and aio_calibrate
delay_us ==
    /\ Foreground
    /\ pc = "cal_delay"
    /\ call' = [call EXCEPT !.vreg_us =
                   IF "ADVREGEN" \in cr THEN T_ADCVREG_SETUP_MICROS ELSE 0]
    /\ pc' = "cal_start"
    /\ UNCHANGED <<hw, nvic, ts_cal, dbg, poll, adc_result, waker, woken,
                   doc, flash, radio>>

\* a calibration requested without waiting for the converter to be disabled
\* or for the regulator
start_calibrate_early ==
    /\ Foreground
    /\ pc \in {"cal_dis_wait", "cal_start"}
    /\ cr' = CrWrite(cr, {"ADCAL", "ADVREGEN"})
    /\ IF call.fn = "calibrate"
       THEN pc' = "cal_wait" /\ UNCHANGED <<ier, poll>>
       ELSE pc' = "cal_await" /\ ier' = {"EOCAL"} /\ poll' = "reg"
    /\ UNCHANGED <<isr, ccr, chselr, ch_pending, applied, smpr, dr, calfact,
                   starting, nvic, ts_cal, dbg, call, adc_result, waker, woken,
                   cfgr1, doc, flash, radio>>

\* start_calibrate, for aio_calibrate with the calibration interrupt armed
\* first and the first poll begun
start_calibrate ==
    /\ Foreground
    /\ pc = "cal_start"
    /\ cr' = CrWrite(cr, {"ADCAL", "ADVREGEN"})
    /\ IF call.fn = "calibrate"
       THEN pc' = "cal_wait" /\ UNCHANGED <<ier, poll>>
       ELSE pc' = "cal_await" /\ ier' = {"EOCAL"} /\ poll' = "reg"
    /\ UNCHANGED <<isr, ccr, chselr, ch_pending, applied, smpr, dr, calfact,
                   starting, nvic, ts_cal, dbg, call, adc_result, waker, woken,
                   cfgr1, doc, flash, radio>>

\* calibrate: while adcal().is_calibrating() {}, then EOCAL cleared
calibrate_wait ==
    /\ Foreground
    /\ pc = "cal_wait"
    /\ "ADCAL" \notin cr
    /\ isr' = IsrWrite(isr, {"EOCAL"})
    /\ pc' = "idle"
    /\ call' = [call EXCEPT !.done = TRUE]
    /\ UNCHANGED <<cr, ier, ccr, chselr, ch_pending, applied, smpr, dr, calfact,
                   starting, nvic, ts_cal, dbg, poll, adc_result, waker, woken,
                   cfgr1, doc, flash, radio>>

\* aio_calibrate after its wait resolved
calibrate_ready ==
    /\ Foreground
    /\ pc = "cal_await" /\ poll = "ready"
    /\ pc' = "idle" /\ poll' = "none"
    /\ call' = [call EXCEPT !.done = TRUE]
    /\ UNCHANGED <<hw, nvic, ts_cal, dbg, adc_result, waker, woken, doc,
                   flash, radio>>

\* a measurement up to its first wait: the debug assertions, set_chsel, and
\* for the async variants the CCRDY interrupt armed and the first poll
meas_call(fn) ==
    /\ Foreground
    /\ pc = "idle"
    /\ call' = [Begin(fn) EXCEPT !.args = <<mask(ChOf(fn)), 0, 0>>]
    /\ IF dbg /\ ~MeasPre(fn)
       THEN pc' = "panic" /\ UNCHANGED <<chselr, ch_pending, ier, poll>>
       ELSE /\ chselr' = set_chsel(mask(ChOf(fn)))
            /\ ch_pending' = TRUE
            /\ IF fn \notin AsyncMeas
               THEN pc' = "cfg_wait" /\ UNCHANGED <<ier, poll>>
               ELSE pc' = "cfg_await" /\ ier' = {"CCRDY"} /\ poll' = "reg"
    /\ UNCHANGED <<cr, isr, ccr, applied, smpr, dr, calfact, starting, nvic,
                   ts_cal, dbg, adc_result, waker, woken, cfgr1, doc, flash,
                   radio>>

\* cfg_ch_seq: while ccrdy().is_not_complete() {}; then the conversion is
\* started and temperature() reads the calibration factor
cfg_ch_seq ==
    /\ Foreground
    /\ pc = "cfg_wait"
    /\ "CCRDY" \in isr
    /\ cr' = CrWrite(cr, {"ADSTART"})
    /\ call' = [call EXCEPT !.cf = IF call.fn = "temperature" THEN calfact ELSE 0]
    /\ pc' = "data_wait"
    /\ UNCHANGED <<isr, ier, ccr, chselr, ch_pending, applied, smpr, dr, calfact,
                   starting, nvic, ts_cal, dbg, poll, adc_result, waker, woken,
                   cfgr1, doc, flash, radio>>

\* aio_cfg_ch_seq resumed: the conversion is started, aio_temperature reads the
\* calibration factor, aio_data arms the EOC interrupt and polls
aio_cfg_ch_seq ==
    /\ Foreground
    /\ pc = "cfg_await" /\ poll = "ready"
    /\ cr' = CrWrite(cr, {"ADSTART"})
    /\ call' = [call EXCEPT !.cf = IF call.fn = "aio_temperature" THEN calfact ELSE 0]
    /\ ier' = {"EOC"}
    /\ pc' = "data_await" /\ poll' = "reg"
    /\ UNCHANGED <<isr, ccr, chselr, ch_pending, applied, smpr, dr, calfact,
                   starting, nvic, ts_cal, dbg, adc_result, waker, woken,
                   cfgr1, doc, flash, radio>>

\* the tail of a measurement on the sample read from ADC_DR (the read clears
\* EOC): the u16 result, or the temperature arithmetic, which panics on
\* overflow in a build that checks it
Finish(d) ==
    IF call.fn \in {"temperature", "aio_temperature"}
    THEN LET t == TemperatureOf(d, call.cf, ts_cal[1], ts_cal[2])
         IN  IF dbg /\ t.ovf
             THEN pc' = "panic" /\ call' = [call EXCEPT !.val = d, !.ratio = t]
             ELSE pc' = "idle"
                  /\ call' = [call EXCEPT !.done = TRUE, !.val = d, !.ratio = t]
    ELSE pc' = "idle"
         /\ call' = [call EXCEPT !.done = TRUE, !.val = Sample(call.fn, d)]

\* a faulty variant of aio_data (see the faulty variants above): the call
\* resumes without reading ADC_DR and returns the value it started with
aio_data_unread ==
    /\ Foreground
    /\ pc = "data_await" /\ poll = "ready"
    /\ isr' = isr
    /\ poll' = "none"
    /\ Finish(call.val)
    /\ UNCHANGED <<cr, ier, ccr, chselr, ch_pending, applied, smpr, dr, calfact,
                   starting, nvic, ts_cal, dbg, adc_result, waker, woken,
                   cfgr1, doc, flash, radio>>

\* a faulty variant of data: the sample is read without clearing EOC
data_eoc_kept ==
    /\ Foreground
    /\ pc = "data_wait"
    /\ "EOC" \in isr
    /\ isr' = isr
    /\ Finish(dr)
    /\ UNCHANGED <<cr, ier, ccr, chselr, ch_pending, applied, smpr, dr, calfact,
                   starting, nvic, ts_cal, dbg, poll, adc_result, waker, woken,
                   cfgr1, doc, flash, radio>>

\* data(): while eoc().is_not_complete() {}, read DR, clear EOC
data ==
    /\ Foreground
    /\ pc = "data_wait"
    /\ "EOC" \in isr
    /\ isr' = IsrWrite(isr \ {"EOC"}, {"EOC"})
    /\ Finish(dr)
    /\ UNCHANGED <<cr, ier, ccr, chselr, ch_pending, applied, smpr, dr, calfact,
                   starting, nvic, ts_cal, dbg, poll, adc_result, waker, woken,
                   cfgr1, doc, flash, radio>>

\* aio_data resumed: read DR
aio_data ==
    /\ Foreground
    /\ pc = "data_await" /\ poll = "ready"
    /\ isr' = isr \ {"EOC"}
    /\ poll' = "none"
    /\ Finish(dr)
    /\ UNCHANGED <<cr, ier, ccr, chselr, ch_pending, applied, smpr, dr, calfact,
                   starting, nvic, ts_cal, dbg, adc_result, waker, woken,
                   cfgr1, doc, flash, radio>>

---------------------------------------------------------------------------
(* aio::poll, step by step (the interrupt may preempt between the steps),   *)
(* the executor and the ADC interrupt handler.                             *)

\* a faulty variant of poll_register: the waiter is not registered
poll_unregistered ==
    /\ Foreground
    /\ poll = "reg"
    /\ poll' = "load"
    /\ UNCHANGED <<hw, nvic, ts_cal, dbg, pc, call, adc_result, waker, woken,
                   doc, flash, radio>>

\* ADC_WAKER.register(cx.waker())
poll_register ==
    /\ Foreground
    /\ poll = "reg"
    /\ waker' = TRUE
    /\ poll' = "load"
    /\ UNCHANGED <<hw, nvic, ts_cal, dbg, pc, call, adc_result, woken, doc,
                   flash, radio>>

\* a faulty variant of poll_load: Ready whatever the result slot holds
poll_load_ready ==
    /\ Foreground
    /\ poll = "load"
    /\ poll' = "swap"
    /\ UNCHANGED <<hw, nvic, ts_cal, dbg, pc, call, adc_result, waker, woken,
                   doc, flash, radio>>

\* a faulty variant of poll_load: a result is delivered only to a task the
\* handler has woken, so one posted before the waiter registered is left
poll_load_woken ==
    /\ Foreground
    /\ poll = "load"
    /\ poll' = IF adc_result = {} \/ ~woken THEN "pending" ELSE "swap"
    /\ UNCHANGED <<hw, nvic, ts_cal, dbg, pc, call, adc_result, waker, woken,
                   doc, flash, radio>>

\* match ADC_RESULT.load(SeqCst): 0 => Poll::Pending
poll_load ==
    /\ Foreground
    /\ poll = "load"
    /\ poll' = IF adc_result = {} THEN "pending" ELSE "swap"
    /\ UNCHANGED <<hw, nvic, ts_cal, dbg, pc, call, adc_result, waker, woken,
                   doc, flash, radio>>

\* a faulty variant of poll_swap: the slot is read but not emptied
poll_swap_keep ==
    /\ Foreground
    /\ poll = "swap"
    /\ waker' = FALSE
    /\ call' = [call EXCEPT !.word = adc_result]
    /\ poll' = "ready"
    /\ UNCHANGED <<hw, nvic, ts_cal, dbg, pc, adc_result, woken, doc, flash,
                   radio>>

\* ADC_WAKER.take(); ADC_RESULT.swap(0, SeqCst); Poll::Ready(isr)
poll_swap ==
    /\ Foreground
    /\ poll = "swap"
    /\ waker' = FALSE
    /\ call' = [call EXCEPT !.word = adc_result]
    /\ adc_result' = {}
    /\ poll' = "ready"
    /\ UNCHANGED <<hw, nvic, ts_cal, dbg, pc, woken, doc, flash, radio>>

\* the executor polls the woken task again
repoll ==
    /\ Foreground
    /\ poll = "pending" /\ woken
    /\ woken' = FALSE
    /\ poll' = "reg"
    /\ UNCHANGED <<hw, nvic, ts_cal, dbg, pc, call, adc_result, waker, doc,
                   flash, radio>>

\* a drop that disarmed the interrupt and emptied the slot
cancel_disarm ==
    /\ Foreground
    /\ poll = "pending"
    /\ pc' = "idle" /\ poll' = "none"
    /\ woken' = FALSE
    /\ ier' = {} /\ adc_result' = {}
    /\ UNCHANGED <<cr, isr, ccr, chselr, ch_pending, applied, smpr, dr, calfact,
                   starting, nvic, ts_cal, dbg, call, waker, cfgr1, doc,
                   flash, radio>>

\* the pending future is dropped: nothing is undone
cancel ==
    /\ Foreground
    /\ poll = "pending"
    /\ pc' = "idle" /\ poll' = "none"
    /\ woken' = FALSE
    /\ UNCHANGED <<hw, nvic, ts_cal, dbg, call, adc_result, waker, doc,
                   flash, radio>>

\* a handler that clears the flags but leaves the interrupt enables set
ADC_enables_kept ==
    /\ IrqPending /\ pc # "panic"
    /\ IF dbg /\ adc_result # {}
       THEN pc' = "panic"
            /\ UNCHANGED <<isr, ier, adc_result, waker, woken, call>>
       ELSE /\ adc_result' = isr
            /\ isr' = IsrWrite(isr, IsrBits)
            /\ ier' = ier
            /\ waker' = FALSE
            /\ woken' = (woken \/ waker)
            /\ pc' = pc
            /\ call' = [call EXCEPT !.overrun = @ \/ adc_result # {}]
    /\ UNCHANGED <<cr, ccr, chselr, ch_pending, applied, smpr, dr, calfact,
                   starting, nvic, ts_cal, dbg, poll, cfgr1, doc, flash,
                   radio>>

\* a handler that keeps an unread result instead of storing over it
ADC_keep_first ==
    /\ IrqPending /\ pc # "panic"
    /\ IF dbg /\ adc_result # {}
       THEN pc' = "panic"
            /\ UNCHANGED <<isr, ier, adc_result, waker, woken, call>>
       ELSE /\ adc_result' = (IF adc_result = {} THEN isr ELSE adc_result)
            /\ isr' = IsrWrite(isr, IsrBits)
            /\ ier' = {}
            /\ waker' = FALSE
            /\ woken' = (woken \/ waker)
            /\ pc' = pc
            /\ call' = [call EXCEPT !.overrun = @ \/ adc_result # {}]
    /\ UNCHANGED <<cr, ccr, chselr, ch_pending, applied, smpr, dr, calfact,
                   starting, nvic, ts_cal, dbg, poll, cfgr1, doc, flash,
                   radio>>

\* aio::irq::ADC, run to completion
ADC ==
    /\ IrqPending /\ pc # "panic"
    /\ IF dbg /\ adc_result # {}
       THEN pc' = "panic"
            /\ UNCHANGED <<isr, ier, adc_result, waker, woken, call>>
       ELSE /\ adc_result' = isr
            /\ isr' = IsrWrite(isr, IsrBits)
            /\ ier' = {}
            /\ waker' = FALSE
            /\ woken' = (woken \/ waker)
            /\ pc' = pc
            /\ call' = [call EXCEPT !.overrun = @ \/ adc_result # {}]
    /\ UNCHANGED <<cr, ccr, chselr, ch_pending, applied, smpr, dr, calfact,
                   starting, nvic, ts_cal, dbg, poll, cfgr1, doc, flash,
                   radio>>

\* the arguments the documented example of set_sample_times passes
DocSampleArgs == {<<BitOr(BitOr(mask("In1"), mask("In0")), mask("Vbat")),
                    Ts.Cyc160, Ts.Cyc39>>}

\* Every driver call with every future polled to completion.  A call then
\* never finds a conversion running (ADSTART is cleared by the end of the
\* single conversion each measurement waits for), so the stop branch of
\* start_disable is exercised by NextCancel below.
Next ==
    \/ HwReady \/ HwDisable \/ HwLatch \/ HwConvert \/ HwCalDone
    \/ ADC
    \/ \E b \in {"TSEN", "VREFEN", "VBATEN"} : enable_source(b)
    \/ \E u \in BOOLEAN : set_irq_mask(u)
    \/ \E fn \in {"enable", "aio_enable"} : enable_call(fn)
    \/ enable_wait \/ enable_ready
    \/ \E fn \in {"start_disable", "calibrate", "aio_calibrate"} : start_disable_call(fn)
    \/ start_disable_addis
    \/ setup_calibrate \/ delay_us \/ start_calibrate
    \/ calibrate_wait \/ calibrate_ready
    \/ \E fn \in BlockingMeas \cup AsyncMeas : meas_call(fn)
    \/ cfg_ch_seq \/ aio_cfg_ch_seq \/ data \/ aio_data
    \/ poll_register \/ poll_load \/ poll_swap \/ repoll

Spec == Init /\ [][Next]_vars

\* The driver with a measurement future that may be dropped while pending,
\* which leaves its conversion running: enable, start_disable and the
\* asynchronous reference measurement.
NextCancel ==
    \/ HwReady \/ HwDisable \/ HwStop \/ HwLatch \/ HwConvert
    \/ ADC
    \/ enable_source("VREFEN")
    \/ set_irq_mask(TRUE)
    \/ enable_call("enable")
    \/ enable_wait
    \/ start_disable_call("start_disable")
    \/ start_disable_stop \/ start_disable_wait \/ start_disable_addis
    \/ meas_call("aio_vref")
    \/ aio_cfg_ch_seq \/ aio_data
    \/ poll_register \/ poll_load \/ poll_swap \/ repoll \/ cancel

SpecCancel == Init /\ [][NextCancel]_vars

---------------------------------------------------------------------------
(* The sample-time table on its own: set_sample_times swept over masks and  *)
(* selector values on the converter as constructed (no conversion active). *)

\* the union of Ch::mask() over a set of variants
RECURSIVE MaskUnion(_)
MaskUnion(S) ==
    IF S = {} THEN 0
    ELSE LET c == CHOOSE x \in S : TRUE
         IN  BitOr(mask(c), MaskUnion(S \ {c}))

\* the masks swept: none, single channels, the documented example, every
\* variant of Ch, and each reserved bit
SampleMasks ==
    {0, mask("In0"), mask("Vbat"), mask("Dac"), MaskUnion(ChNames),
     Pow2(15), Pow2(16)} \cup {a[1] : a \in DocSampleArgs}

SampleTs == {Ts.Cyc1, Ts.Cyc39, Ts.Cyc160}

NextSmpr ==
    \/ \E m \in SampleMasks, sel0 \in SampleTs, sel1 \in SampleTs :
          set_sample_times(m, sel0, sel1)
    \/ set_max_sample_time

SpecSmpr == Init /\ [][NextSmpr]_vars

\* C1: after set_sample_times(mask, sel0, sel1) with no conversion active,
\* every channel of Ch whose bit in mask is 1 samples for sel1 and every
\* channel whose bit is 0 samples for sel0.
C1_SampleTimePerChannel ==
    (call.fn = "set_sample_times" /\ call.done) =>
        \A c \in ChNames :
            SampleTimeOf(smpr, c) =
                IF TestBit(call.args[1], Ch[c]) THEN call.args[3] ELSE call.args[2]

\* C2: CH_MASK, the constant set_sample_times filters its mask with, is the
\* union of Ch::mask() over the sixteen variants of Ch (bits 0 to 14 and
\* bit 17) and holds neither reserved bit 15 nor 16: the selection bits the
\* register receives are exactly the mask's bits of those channels.
C2_ChMaskIsUnionOfChannels ==
    (call.fn = "set_sample_times" /\ call.done) =>
        /\ Cardinality(ChNames) = 16
        /\ CH_MASK = MaskUnion(ChNames)
        /\ ~TestBit(CH_MASK, 15)
        /\ ~TestBit(CH_MASK, 16)
        /\ smpr \div Pow2(8) = BitAnd(call.args[1], MaskUnion(ChNames))

---------------------------------------------------------------------------
(* Channel selection.                                                      *)

\* C3: when a channel selection has returned (cfg_ch_seq, or aio_cfg_ch_seq
\* resumed) the hardware has applied the mask that call wrote: nothing is
\* waiting to be latched and the applied configuration is the call's mask.
C3_SelectionLatchedOnReturn ==
    pc \in {"data_wait", "data_await"} =>
        /\ ~ch_pending
        /\ applied = call.args[1]

\* A selection of an arbitrary mask on its own: cfg_ch_seq(ch) entered ...
select(ch) ==
    /\ Foreground
    /\ pc = "idle"
    /\ chselr' = set_chsel(ch)
    /\ ch_pending' = TRUE
    /\ call' = [Begin("cfg_ch_seq") EXCEPT !.args = <<ch, 0, 0>>]
    /\ pc' = "sel_wait"
    /\ UNCHANGED <<cr, isr, ier, ccr, applied, smpr, dr, calfact, starting, nvic,
                   ts_cal, dbg, poll, adc_result, waker, woken, cfgr1, doc,
                   flash, radio>>

\* ... and returned once CCRDY reads set; the caller then reads CHSELR back
select_return ==
    /\ Foreground
    /\ pc = "sel_wait"
    /\ "CCRDY" \in isr
    /\ pc' = "idle"
    /\ call' = [call EXCEPT !.done = TRUE, !.val = chselr]
    /\ UNCHANGED <<hw, nvic, ts_cal, dbg, poll, adc_result, waker, woken,
                   doc, flash, radio>>

\* the masks swept: every variant of Ch, none, all, the reserved bits, and
\* bits above the 18-bit field
SelMasks ==
    {mask(c) : c \in ChNames}
        \cup {0, MaskUnion(ChNames), Pow2(15), Pow2(16), Pow2(15) + Pow2(16) + 1,
              Pow2(18), Pow2(20) + Pow2(17), Pow2(18) - 1}

NextChsel ==
    \/ \E ch \in SelMasks : select(ch)
    \/ HwLatch
    \/ select_return

SpecChsel == Init /\ [][NextChsel]_vars

\* the 18 bits of the CHSEL field of CHSELR
ChselField == Pow2(18) - 1

---------------------------------------------------------------------------
(* Enabling and disabling, with a conversion left running by a dropped     *)
(* measurement future.                                                     *)

\* C5 (as the code has it): start_disable entered while a conversion is
\* active requests the stop, waits for its acknowledgment and only then
\* requests the disable; once it has returned the conversion is halted
\* (ADSTART and ADSTP clear) and the disable is requested or complete (ADDIS
\* set or ADEN clear).  It does not wait for the disable to complete.
C5_StopThenDisableRequested ==
    (call.fn = "start_disable" /\ call.active /\ call.done) =>
        /\ "ADSTART" \notin cr /\ "ADSTP" \notin cr
        /\ ("ADDIS" \in cr \/ "ADEN" \notin cr)

\* start_disable, entered during a conversion, has returned; the disable is
\* requested and not yet complete, and the flag of a conversion that ended
\* before the stop took effect is still set
C5_Witness ==
    /\ call.fn = "start_disable" /\ call.active /\ call.done /\ pc = "idle"
    /\ "ADDIS" \in cr /\ ~is_disabled
    /\ "EOC" \in isr

\* C5 as stated: after disable was invoked during a conversion,
\* is_disabled() is true and no end-of-conversion flag is set
C5_DisabledAndNoEoc ==
    (call.fn = "start_disable" /\ call.active /\ call.done) =>
        /\ is_disabled
        /\ "EOC" \notin isr

\* C6: enable() on a converter that is already enabled writes no register:
\* the control bits (an active ADSTART among them), the status flags and the
\* data register are as before, and the call has returned.
C6_EnableIdempotent ==
    [][(is_enabled /\ enable_call("enable")) =>
          (hw' = hw /\ pc' = "idle" /\ call'.done)]_vars

\* enable() has returned without running the enable sequence while a
\* conversion was in progress
C6_Witness ==
    /\ call.fn = "enable" /\ call.done /\ call.val = 0
    /\ is_enabled /\ "ADSTART" \in cr

---------------------------------------------------------------------------
(* The temperature arithmetic on its own: the tail of temperature() and of  *)
(* aio_temperature() from the point where the sample is read, swept over   *)
(* the samples of the 12-bit converter, calibration factors and factory    *)
(* anchors.                                                                *)

RawSamples == 0 .. (Pow2(12) - 1)

CalFactSamples == {0, 1, 64, Pow2(7) - 1}

AnchorSamples == Anchors \cup {<<922, 1722>>, <<950, 1260>>}

\* temperature() waiting in data() with the conversion complete, or
\* aio_temperature() resumed in aio_data() after the end-of-conversion
\* interrupt
InitTemp ==
    /\ cr = {"ADEN"} /\ ier = {} /\ ccr = {"TSEN"}
    /\ chselr = mask("Vts") /\ ch_pending = FALSE /\ applied = mask("Vts")
    /\ smpr = 0 /\ cfgr1 = {} /\ starting = FALSE
    /\ dr \in RawSamples
    /\ calfact \in CalFactSamples
    /\ ts_cal \in AnchorSamples
    /\ dbg \in BOOLEAN
    /\ adc_result = {} /\ waker = FALSE /\ woken = FALSE
    /\ doc = NoDoc /\ FlashReset /\ RadioReset
    /\ \E fn \in {"temperature", "aio_temperature"} :
          /\ IF fn = "temperature"
             THEN /\ pc = "data_wait" /\ poll = "none" /\ nvic = FALSE
                  /\ isr = {"ADRDY", "CCRDY", "EOSMP", "EOC", "EOS"}
             ELSE /\ pc = "data_await" /\ poll = "ready" /\ nvic = TRUE
                  /\ isr = {}
          /\ call = [Begin(fn) EXCEPT !.args = <<mask("Vts"), 0, 0>>, !.cf = calfact]

NextTemp == data \/ aio_data

SpecTemp == InitTemp /\ [][NextTemp]_vars

\* a temperature call has ended: it returned, or it panicked in the arithmetic
TempEnded ==
    /\ call.fn \in {"temperature", "aio_temperature"}
    /\ (call.done \/ pc = "panic")

\* the corrected sample of the call: the sample read plus the calibration
\* factor, saturating
Corrected == SaturatingAddU16(call.val, call.cf)

\* the call's result is the integer t
Yields(t) ==
    /\ call.done /\ ~call.ratio.ovf
    /\ call.ratio.numer = t /\ call.ratio.denom = 1

\* the call's result is exactly 100 * (c - T1_raw) / (T2_raw - T1_raw) + 30
ExactResult ==
    LET d == ts_cal[2] - ts_cal[1]
    IN  /\ call.ratio.denom > 0
        /\ call.ratio.numer * d
             = (TS_CAL_TEMP_DELTA * (Corrected - ts_cal[1]) + TS_CAL1_TEMP * d)
                 * call.ratio.denom

C8_TemperatureExact ==
    TempEnded =>
        /\ call.done
        /\ ~call.ratio.ovf
        /\ ExactResult

\* C9: when the corrected sample is below T1_raw the computation raises no
\* overflow fault and the result is the value below 30 of the same formula.
C9_BelowAnchorNoOverflow ==
    (TempEnded /\ Corrected < ts_cal[1]) =>
        /\ call.done
        /\ ~call.ratio.ovf
        /\ ExactResult
        /\ call.ratio.numer < TS_CAL1_TEMP * call.ratio.denom

---------------------------------------------------------------------------
(* Measurements.                                                           *)

\* C10: vbat() returns the code it read from ADC_DR as it is: no
\* multiplication by 3, no other scaling, no offset.
C10_VbatReturnsRawCode ==
    (call.fn = "vbat" /\ call.done) => call.val = dr

\* vbat() has returned a non-zero code converted from the battery channel
C10_Witness ==
    /\ call.fn = "vbat" /\ call.done /\ pc = "idle"
    /\ applied = mask("Vbat")
    /\ dr \in {Converted(a, calfact) : a \in AnalogCodes(mask("Vbat"))}
    /\ dr > 0 /\ call.val = dr

\* the measurement calls, blocking and asynchronous
Measurements == BlockingMeas \cup AsyncMeas

\* C11: the blocking and the asynchronous read path return the same raw
\* sample, and a blocking measurement and its async variant the same result:
\* whichever path a measurement took, once it has returned its conversion
\* has ended, its raw sample is the content of ADC_DR, and temperature and
\* aio_temperature are the same arithmetic on that sample, the calibration
\* factor and the factory constants.
C11_BlockingAsyncSameResult ==
    (call.fn \in Measurements /\ call.done) =>
        /\ "ADSTART" \notin cr
        /\ call.val = dr
        /\ (call.fn \in {"temperature", "aio_temperature"} =>
               /\ call.cf = calfact
               /\ call.ratio = TemperatureOf(dr, calfact, ts_cal[1], ts_cal[2]))

\* aio_vref has returned the code converted from the reference channel, the
\* value vref returns from the same register state
C11_Witness ==
    /\ call.fn = "aio_vref" /\ call.done /\ pc = "idle"
    /\ applied = mask("Vref")
    /\ dr \in {Converted(a, calfact) : a \in AnalogCodes(mask("Vref"))}
    /\ dr > 0 /\ call.val = dr

---------------------------------------------------------------------------
(* The mailbox between the interrupt handler and aio::poll.                *)

\* a poll is between its entry and its return
Polling == poll \in {"reg", "load", "swap"}

\* C12: a result the handler posted before the waiter was registered is
\* delivered by the very next poll: while that poll runs the result stays in
\* the slot, the load does not answer Pending, and the swap returns Ready
\* with it and empties the slot.
C12_EarlyPostDelivered ==
    [][(Polling /\ adc_result # {}) =>
          /\ poll' # "pending"
          /\ \/ adc_result' = adc_result
             \/ /\ poll = "swap" /\ poll' = "ready"
                /\ call'.word = adc_result
                /\ adc_result' = {}]_vars

\* a poll has returned Ready with a result although the handler found no
\* waiter to wake when it posted it
C12_Witness ==
    /\ poll = "ready" /\ call.word # {}
    /\ ~woken /\ ~waker /\ adc_result = {}


\* A step of the interrupt handler taken while an earlier result is still in
\* the slot: it either empties IER (the handler ran to its end) or halts.
SecondPost ==
    /\ IrqPending /\ adc_result # {}
    /\ \/ ier' = {}
       \/ pc # "panic" /\ pc' = "panic"

\* C13 as stated: a second post without an intervening poll never crashes.
C13_DoublePostNeverCrashes ==
    [][SecondPost => pc' # "panic"]_vars

\* C13, amended: a second post without an intervening poll replaces the
\* unread word with the current status word only in a build without debug
\* assertions, and the next poll to reach its swap returns the word then in
\* the slot; in a debug build the handler halts on its assertion that the
\* slot is empty, with the slot, the flags and the enables untouched.
C13_DoublePostLastWinsOrHalts ==
    [][/\ SecondPost =>
            IF dbg
            THEN /\ pc' = "panic"
                 /\ adc_result' = adc_result /\ isr' = isr /\ ier' = ier
            ELSE /\ pc' = pc
                 /\ adc_result' = isr
                 /\ call'.overrun
       /\ (call.overrun /\ poll = "swap" /\ poll' = "ready") =>
              /\ call'.word = adc_result
              /\ adc_result' = {}]_vars

C13_Witness ==
    /\ ~dbg /\ call.overrun
    /\ poll = "ready" /\ call.word # {}
    /\ adc_result = {}

\* C14: poll registers the waiter and then reads the slot; an empty slot
\* gives Pending and stays empty, a full slot gives Ready with its word and
\* is left empty.  With every future polled to completion, the slot changes
\* only by a post of the whole status word into an empty slot or by the one
\* poll that returns that word, and a poll returns no word but the slot's.
C14_PollContractExactlyOnce ==
    [][/\ (poll = "reg" /\ poll' # poll) =>
              poll' = "load" /\ waker' /\ adc_result' = adc_result
       /\ (poll = "load" /\ poll' # poll) =>
              /\ adc_result' = adc_result
              /\ poll' = IF adc_result = {} THEN "pending" ELSE "swap"
       /\ (poll = "swap" /\ poll' # poll) =>
              /\ poll' = "ready"
              /\ call'.word = adc_result /\ call'.word # {}
              /\ adc_result' = {}
       /\ adc_result' # adc_result =>
              \/ adc_result = {} /\ adc_result' = isr
              \/ adc_result' = {} /\ poll = "swap" /\ poll' = "ready"
       /\ (call'.word # call.word /\ call'.word # {}) =>
              poll = "swap" /\ call'.word = adc_result]_vars

\* the handler ran between the waiter registration and the slot load, and
\* that poll returned the word
C14_Witness ==
    /\ poll = "ready" /\ woken
    /\ call.word # {} /\ adc_result = {}

----------------------------------------------------------------------------
(* The interrupt handler.                                                  *)

\* A step taken while the interrupt is pending that touches what only the
\* handler touches then: the slot, the enables, the waker, or a halt.
HandlerStep ==
    /\ IrqPending
    /\ <<adc_result, ier, pc, waker, woken>>' # <<adc_result, ier, pc, waker, woken>>

\* what a run of the handler to its end does
HandlerEffect ==
    /\ adc_result' = isr
    /\ isr' = {} /\ ier' = {}
    /\ ~waker' /\ woken' = (woken \/ waker)
    /\ pc' = pc /\ poll' = poll
    /\ ~IrqPending'

----------------------------------------------------------------------------
(* Progress of the asynchronous operations.  The interrupt controller runs *)
(* a pending unmasked handler, a poll that was entered runs to its return, *)
(* and the executor polls a woken task again; nothing is assumed of the    *)
(* hardware events or of the application's calls.                          *)

NextAio ==
    \/ HwReady \/ HwDisable \/ HwLatch \/ HwConvert \/ HwCalDone
    \/ ADC
    \/ enable_source("VREFEN")
    \/ \E b \in BOOLEAN : set_irq_mask(b)
    \/ enable_call("aio_enable") \/ enable_ready
    \/ \E fn \in {"start_disable", "aio_calibrate"} : start_disable_call(fn)
    \/ start_disable_addis
    \/ setup_calibrate \/ delay_us \/ start_calibrate \/ calibrate_ready
    \/ meas_call("aio_vref")
    \/ aio_cfg_ch_seq \/ aio_data
    \/ poll_register \/ poll_load \/ poll_swap \/ repoll

SpecAio ==
    /\ Init /\ [][NextAio]_vars
    /\ WF_vars(ADC)
    /\ WF_vars(poll_register) /\ WF_vars(poll_load) /\ WF_vars(poll_swap)
    /\ WF_vars(repoll)

\* an asynchronous operation is between arming its interrupt and resuming
Awaiting == poll \in {"reg", "load", "swap", "pending"}

\* C16: once an asynchronous operation has armed its interrupt and the flag
\* it armed is raised with the interrupt unmasked, its wait resolves: the
\* poll returns Ready, wherever the poll stood when the interrupt fired.
C16_NoLostWakeup ==
    (Awaiting /\ nvic /\ isr \cap ier # {}) ~> (poll = "ready")

\* the handler fired after poll had returned Pending: the enables and flags
\* are cleared, and only the wake and the slot carry the event
C16_Witness ==
    /\ pc = "cal_await" /\ poll = "pending"
    /\ woken /\ ~waker
    /\ "EOCAL" \in adc_result /\ ier = {}

----------------------------------------------------------------------------
(* Dropped futures.                                                        *)

\* C17: dropping a pending wait changes no register and not the slot, so
\* its interrupt stays enabled; a word posted while no poll is in progress
\* stays in the slot, and the first poll of the next operation that loads
\* it goes on to return it.  (That this resolves a wait before the
\* operation's own event is the state C17_Witness.)
C17_DroppedWaitStaysArmed ==
    [][/\ (poll = "pending" /\ poll' = "none") =>
              /\ hw' = hw /\ nvic' = nvic
              /\ adc_result' = adc_result
              /\ ier # {} \/ adc_result # {}
       /\ (poll = "none" /\ adc_result # {}) =>
              adc_result' # {}
       /\ (poll = "load" /\ adc_result # {} /\ poll' # poll) =>
              poll' = "swap"]_vars

\* aio_vref's wait for the channel selection has resolved with a word that
\* has no CCRDY in it, while the selection is still to be latched
C17_Witness ==
    /\ call.fn = "aio_vref" /\ pc = "cfg_await"
    /\ poll = "ready" /\ call.word # {} /\ "CCRDY" \notin call.word
    /\ ch_pending /\ "CCRDY" \notin isr
    /\ ~call.overrun

----------------------------------------------------------------------------
(* Calibration, from every state the driver can leave the converter in:    *)
(* disabled, enabled, and enabled with the conversion of a dropped         *)
(* measurement still running.                                              *)

NextCal ==
    \/ HwReady \/ HwDisable \/ HwStop \/ HwLatch \/ HwConvert \/ HwCalDone
    \/ ADC
    \/ enable_source("VREFEN")
    \/ set_irq_mask(TRUE)
    \/ enable_call("enable")
    \/ enable_wait
    \/ \E fn \in {"calibrate", "aio_calibrate"} : start_disable_call(fn)
    \/ start_disable_stop \/ start_disable_wait \/ start_disable_addis
    \/ setup_calibrate \/ delay_us \/ start_calibrate
    \/ calibrate_wait \/ calibrate_ready
    \/ meas_call("aio_vref")
    \/ aio_cfg_ch_seq \/ aio_data
    \/ poll_register \/ poll_load \/ poll_swap \/ repoll \/ cancel

SpecCal == Init /\ [][NextCal]_vars

\* the step that writes the calibration request, and the step that returns
CalRequest == pc' \in {"cal_wait", "cal_await"} /\ pc' # pc
CalReturn  == pc \in {"cal_wait", "cal_await"} /\ pc' = "idle" /\ call'.done

\* the request is written, and ADCAL is raised, only with the converter
\* disabled, the regulator on, DMA off and the regulator delay run
CalOrder ==
    /\ CalRequest =>
          /\ is_disabled
          /\ "ADVREGEN" \in cr
          /\ "DMAEN" \notin cfgr1
          /\ call.vreg_us >= 20
          /\ "ADCAL" \in cr'
    /\ ("ADCAL" \notin cr /\ "ADCAL" \in cr') => CalRequest

\* C18 as stated: calibrate and aio_calibrate request the calibration in
\* protocol order and return only once ADCAL is clear, converter disabled.
C18_CalibrationOrderAndReturn ==
    [][/\ CalOrder
       /\ CalReturn => ("ADCAL" \notin cr /\ is_disabled)]_vars

\* C18, amended: the order holds for both, and both leave the converter
\* disabled; calibrate returns only once ADCAL is clear; aio_calibrate does
\* so unless, when it was called, a dropped wait had left a word in the
\* slot, an interrupt enabled, the end-of-calibration flag raised or a
\* calibration running.
C18_CalibrationOrder ==
    [][/\ CalOrder
       /\ CalReturn =>
              /\ is_disabled
              /\ (call.fn = "calibrate" \/ ~call.stale) => "ADCAL" \notin cr]_vars

\* calibrate has returned, having found a conversion running when called
C18_Witness ==
    /\ call.fn = "calibrate" /\ call.done /\ call.active
    /\ pc = "idle" /\ is_disabled
    /\ "ADCAL" \notin cr /\ "ADVREGEN" \in cr
    /\ call.vreg_us = T_ADCVREG_SETUP_MICROS
    /\ calfact \in CalFacts

----------------------------------------------------------------------------
(* Construction: Adc::new on a peripheral in any state a previous owner    *)
(* may have left it in.                                                    *)

Clk == {"RccHsi", "RccPllP", "RccSysClk", "PClkDiv2", "PClkDiv4", "PClk"}

\* Clk::ckmode
ckmode(clk) ==
    IF clk \in {"RccHsi", "RccPllP", "RccSysClk"} THEN "ADCLK"
    ELSE IF clk = "PClkDiv2" THEN "PCLK_DIV2"
    ELSE IF clk = "PClkDiv4" THEN "PCLK_DIV4"
    ELSE "PCLK"

\* Clk::adcsel
adcsel(clk) ==
    IF clk = "RccHsi" THEN "HSI16"
    ELSE IF clk = "RccPllP" THEN "PLLP"
    ELSE IF clk = "RccSysClk" THEN "SYSCLK"
    ELSE "NOCLOCK"

\* the control register as a previous owner may have left it
PriorCr ==
    {{}, {"ADVREGEN"}, {"ADEN"}, {"ADEN", "ADVREGEN"}, {"ADEN", "ADDIS"},
     {"ADEN", "ADSTART"}, {"ADEN", "ADSTART", "ADSTP"}, {"ADCAL", "ADVREGEN"}}

InitNew ==
    /\ cr \in PriorCr
    /\ isr \in {{}, {"ADRDY"}, IsrBits}
    /\ ier \in {{}, {"EOC"}}
    /\ ccr \in {{}, {"VREFEN"}}
    /\ chselr \in {0, mask("Vref")} /\ applied = chselr
    /\ ch_pending = FALSE
    /\ smpr \in {0, 7}
    /\ dr \in {0, 1500} /\ calfact \in {0, 64}
    /\ cfgr1 \in {{}, {"DMAEN"}}
    /\ starting = ("ADEN" \in cr /\ "ADRDY" \notin isr)
    /\ nvic = FALSE
    /\ ts_cal \in Anchors
    /\ dbg \in BOOLEAN
    /\ pc = "boot" /\ poll = "none"
    /\ adc_result = {} /\ waker = FALSE /\ woken = FALSE
    /\ doc = NoDoc /\ FlashReset /\ RadioReset
    /\ call = Begin("none")

\* a constructor that leaves out pulse_reset
new_noreset(clk) ==
    /\ pc = "boot"
    /\ pc' = "idle"
    /\ call' = [Begin("new") EXCEPT
                  !.args = <<clk, ckmode(clk), adcsel(clk)>>,
                  !.active = ("ADSTART" \in cr),
                  !.done = TRUE]
    /\ UNCHANGED <<hw, nvic, ts_cal, dbg, poll, adc_result, waker, woken,
                   doc, flash, radio>>

\* Adc::new: pulse_reset puts every register of the peripheral at its reset
\* value; the clock is enabled and routed (CFGR2.CKMODE, RCC CCIPR.ADCSEL)
new(clk) ==
    /\ pc = "boot"
    /\ cr' = {} /\ isr' = {} /\ ier' = {} /\ ccr' = {}
    /\ chselr' = 0 /\ ch_pending' = FALSE /\ applied' = 0
    /\ smpr' = 0 /\ dr' = 0 /\ calfact' = 0 /\ cfgr1' = {}
    /\ starting' = FALSE
    /\ pc' = "idle"
    /\ call' = [Begin("new") EXCEPT
                  !.args = <<clk, ckmode(clk), adcsel(clk)>>,
                  !.active = ("ADSTART" \in cr),
                  !.done = TRUE]
    /\ UNCHANGED <<nvic, ts_cal, dbg, poll, adc_result, waker, woken, doc,
                   flash, radio>>

NextNew == \E clk \in Clk : new(clk)

SpecNew == InitNew /\ [][NextNew]_vars

\* C19: when Adc::new has returned, for every clock source and whatever the
\* peripheral held before, is_enabled() is false and is_disabled() is true.
C19_DisabledAfterNew ==
    (call.fn = "new" /\ call.done /\ pc = "idle") =>
        /\ ~is_enabled
        /\ is_disabled

\* new has returned for the synchronous clock PCLK on a peripheral that was
\* converting when it was handed over
C19_Witness ==
    /\ call.fn = "new" /\ call.done /\ pc = "idle"
    /\ call.args = <<"PClk", "PCLK", "NOCLOCK">>
    /\ call.active
    /\ is_disabled /\ ~is_enabled

----------------------------------------------------------------------------
(* The debug assertions at the head of the measurements and of             *)
(* set_sample_times, called in every state the driver can be left in.      *)

Sources == {"TSEN", "VREFEN", "VBATEN"}

NextPre ==
    \/ HwReady \/ HwLatch \/ HwConvert
    \/ ADC
    \/ \E b \in Sources : enable_source(b)
    \/ set_irq_mask(TRUE)
    \/ enable_call("enable")
    \/ enable_wait
    \/ \E fn \in BlockingMeas \cup UnsourcedMeas \cup AsyncMeas : meas_call(fn)
    \/ cfg_ch_seq \/ aio_cfg_ch_seq \/ data \/ aio_data
    \/ \E a \in DocSampleArgs : set_sample_times(a[1], a[2], a[3])
    \/ poll_register \/ poll_load \/ poll_swap \/ repoll \/ cancel

SpecPre == Init /\ [][NextPre]_vars

\* what each call requires of the peripheral
Required(fn) ==
    CASE fn \in {"temperature", "aio_temperature"} -> is_enabled /\ "TSEN" \in ccr
      [] fn \in {"vref", "aio_vref"} -> is_enabled /\ "VREFEN" \in ccr
      [] fn = "vbat" -> is_enabled /\ "VBATEN" \in ccr
      [] fn \in {"dac", "pin"} -> is_enabled
      [] fn = "set_sample_times" -> "ADSTART" \notin cr

Checked ==
    {"temperature", "aio_temperature", "vref", "aio_vref", "vbat", "dac", "pin",
     "set_sample_times"}

\* the step in which the application calls fn
Entered(fn) ==
    /\ Foreground /\ pc = "idle"
    /\ call'.fn = fn
    /\ <<pc, call>>' # <<pc, call>>

\* C20: in a debug build a call whose precondition does not hold halts in
\* the step of the call, with every peripheral register as it was and
\* without returning; a call whose precondition holds, and any call in a
\* build without debug assertions, does not halt there.
C20_PreconditionsHaltBeforeWrites ==
    [][\A fn \in Checked :
          Entered(fn) =>
              IF dbg /\ ~Required(fn)
              THEN /\ pc' = "panic"
                   /\ hw' = hw
                   /\ ~call'.done
              ELSE pc' # "panic"]_vars

\* set_sample_times was called in a debug build while the conversion of a
\* dropped measurement was running: halted, ADC_SMPR not written
C20_Witness ==
    /\ dbg /\ pc = "panic"
    /\ call.fn = "set_sample_times" /\ ~call.done
    /\ "ADSTART" \in cr
    /\ smpr = 0

----------------------------------------------------------------------------
(* The blocking operations with the ADC interrupt masked: the handler      *)
(* never runs.  The hardware completes every request it has accepted, and  *)
(* a call that has been entered keeps executing.                           *)

\* the measurements of the fair specification; temperature() takes the same
\* steps as vref() (cfg_ch_seq, data) and is explored under Spec
BlockingFns == {"vref", "vbat", "dac", "pin"}

BlockingSources == {"VREFEN", "VBATEN"}

NextBlocking ==
    \/ HwReady \/ HwDisable \/ HwLatch \/ HwConvert \/ HwCalDone
    \/ \E b \in BlockingSources : enable_source(b)
    \/ enable_call("enable")
    \/ enable_wait
    \/ \E fn \in {"start_disable", "calibrate"} : start_disable_call(fn)
    \/ start_disable_addis
    \/ setup_calibrate \/ delay_us \/ start_calibrate \/ calibrate_wait
    \/ \E fn \in BlockingFns : meas_call(fn)
    \/ cfg_ch_seq \/ data

\* a request the hardware has accepted completes
HwStep == HwReady \/ HwDisable \/ HwLatch \/ HwConvert \/ HwCalDone

\* the next step of the call that has been entered
RunStep ==
    \/ enable_wait
    \/ start_disable_addis
    \/ setup_calibrate \/ delay_us \/ start_calibrate \/ calibrate_wait
    \/ cfg_ch_seq \/ data

SpecBlocking ==
    Init /\ [][NextBlocking]_vars /\ WF_vars(HwStep) /\ WF_vars(RunStep)

\* a call has been entered and has neither returned nor halted
InCall == pc \notin {"idle", "panic"}


\* the steps of a blocking call leave the interrupt enables and the two
\* mailbox cells (ADC_RESULT, ADC_WAKER) alone
BlockingFrame ==
    /\ ier' = ier
    /\ adc_result' = adc_result
    /\ waker' = waker /\ woken' = woken
    /\ poll' = poll

\* C21: with the ADC interrupt masked, no step of a blocking operation
\* (enable, start_disable, calibrate, vref, dac, pin, vbat) sets an
\* interrupt-enable bit or touches the two mailbox cells, and every blocking
\* call entered in a debug build returns or halts on its assertion although
\* the handler never runs.
C21_BlockingFrameAndCompletion ==
    /\ [][BlockingFrame]_vars
    /\ (dbg /\ ~nvic /\ InCall) ~> ~InCall

\* C23: a blocking measurement entered with its debug-time preconditions
\* holding (a debug build did not halt at the call), enable() and calibrate()
\* eventually return, the hardware completing every request it accepts.
C23_BlockingCallsTerminate ==
    (dbg /\ InCall /\ call.fn \in BlockingFns \cup {"enable", "calibrate"})
        ~> (pc = "idle" /\ call.done)

----------------------------------------------------------------------------
(* Adc::enable against Adc::aio_enable.                                     *)

EnableFns == {"enable", "aio_enable"}

\* the step in which enable() or aio_enable(), having run the enable
\* sequence, returns
EnableReturn(fn) ==
    /\ call.fn = fn /\ pc \in {"en_wait", "en_await"}
    /\ pc' = "idle" /\ call'.done

\* what the peripheral shows of the lifecycle and of the ready interrupt
EnableStatus == <<"ADEN" \in cr, "ADDIS" \in cr, "ADRDY" \in isr, ier>>

\* C22 as stated: enable() and aio_enable(), run from Disabled, return with
\* the same peripheral status, which for enable() is ADEN set, no disable
\* pending, the ready flag ADRDY set and no interrupt enabled.
C22_SameStatusAfterEnable ==
    [][\A fn \in EnableFns :
          EnableReturn(fn) => EnableStatus' = <<TRUE, FALSE, TRUE, {}>>]_vars

\* C22: enable() and aio_enable() called with ADEN set write no register,
\* return in the step of the call, and aio_enable then arms no interrupt and
\* does not wait.  Run from Disabled, both return with the converter enabled,
\* no disable pending and no interrupt enabled; ADRDY is still set in ADC_ISR
\* after enable(), while after aio_enable() the handler has cleared it and
\* the future has taken the status word holding it out of the result slot.
C22_EnableAndAioEnable ==
    [][\A fn \in EnableFns :
          /\ (Entered(fn) /\ is_enabled) =>
                 /\ hw' = hw
                 /\ pc' = "idle" /\ poll' = poll /\ call'.done
                 /\ adc_result' = adc_result /\ waker' = waker
          /\ (Entered(fn) /\ ~is_enabled) => ~call'.done
          /\ EnableReturn(fn) =>
                 /\ EnableStatus' = <<TRUE, FALSE, fn = "enable", {}>>
                 /\ fn = "aio_enable" =>
                        "ADRDY" \in call'.word /\ adc_result' = {}]_vars

\* aio_enable() has run the enable sequence and returned: the converter is
\* enabled, ADRDY has been cleared by the handler
C22_Witness ==
    /\ pc = "idle" /\ call.fn = "aio_enable" /\ call.done /\ call.val = 1
    /\ "ADRDY" \in call.word
    /\ EnableStatus = <<TRUE, FALSE, FALSE, {}>>

----------------------------------------------------------------------------
(* The result slot when the handler starts, every future being polled to    *)
(* completion before the next call (Spec).                                  *)

\* C24: whenever the ADC interrupt is pending, so that the handler is about
\* to start, ADC_RESULT is empty, and no run of the handler has stored over
\* an untaken result: the handler's debug_assert_eq!(ADC_RESULT, 0) holds in
\* every sequence of aio_enable, aio_calibrate, aio_vref and aio_temperature
\* (and blocking) calls whose futures are awaited to completion.
C24_SlotEmptyWhenHandlerStarts ==
    /\ IrqPending => adc_result = {}
    /\ ~call.overrun

\* the handler is about to start for the end of the conversion of
\* aio_temperature in a debug build, the slot having been emptied by the
\* poll that took the CCRDY result
C24_Witness ==
    /\ dbg /\ IrqPending
    /\ call.fn = "aio_temperature" /\ ~call.done
    /\ "EOC" \in isr /\ "EOC" \in ier
    /\ adc_result = {}

----------------------------------------------------------------------------
(* set_max_sample_time.                                                     *)

\* the channel inputs of the converter: ADC_SMPR has a selection bit SMPSELx
\* for x = 0..18, of which 15 and 16 are reserved
ChannelInputs == 0 .. 18

\* the sample time selector channel input x uses under the word in ADC_SMPR
ChannelTime(word, x) ==
    IF TestBit(word, 8 + x) THEN (word \div 16) % 8 ELSE word % 8

\* C25: set_max_sample_time() leaves in ADC_SMPR the word that
\* set_sample_times(0, Cyc160, Cyc160) writes, and under it every channel
\* input, reserved ones included, samples for the maximum selector 0b111
\* (160.5 cycles).
C25_MaxSampleTimeEveryChannel ==
    (call.fn = "set_max_sample_time" /\ call.done) =>
        /\ call.args = <<0, Ts.Cyc160, Ts.Cyc160>>
        /\ smpr = SmprWord(0, Ts.Cyc160, Ts.Cyc160)
        /\ \A x \in ChannelInputs : ChannelTime(smpr, x) = 7

\* set_max_sample_time() has returned with 0x77 in ADC_SMPR
C25_Witness ==
    /\ call.fn = "set_max_sample_time" /\ call.done
    /\ smpr = 119

----------------------------------------------------------------------------
(* The documented examples of the measurements, each run line by line on   *)
(* the converter as Adc::new leaves it.  The delay of the temperature      *)
(* example (TS_START_MAX) touches no register and is not a line here.      *)

\* the driver calls of the example in the documentation of each measurement
DocExamples ==
    [temperature |-> <<"enable", "enable_tsen", "set_max_sample_time",
                       "temperature">>,
     vref |-> <<"calibrate", "set_max_sample_time", "enable", "enable_vref",
                "vref">>,
     dac |-> <<"calibrate", "set_max_sample_time", "dac">>,
     pin |-> <<"calibrate", "set_max_sample_time", "enable", "pin">>,
     vbat |-> <<"calibrate", "enable", "enable_vbat", "set_max_sample_time",
                "vbat">>]

DocMeasurements == DOMAIN DocExamples

InitDoc ==
    /\ cr = {} /\ isr = {} /\ ier = {} /\ ccr = {}
    /\ chselr = 0 /\ ch_pending = FALSE /\ applied = 0
    /\ smpr = 0 /\ dr = 0 /\ calfact = 0 /\ cfgr1 = {} /\ starting = FALSE
    /\ nvic = FALSE
    /\ ts_cal \in Anchors
    /\ dbg \in BOOLEAN
    /\ pc = "idle" /\ poll = "none"
    /\ adc_result = {} /\ waker = FALSE /\ woken = FALSE
    /\ doc \in [ex : DocMeasurements, at : {1}]
    /\ FlashReset /\ RadioReset
    /\ call = [Begin("new") EXCEPT !.done = TRUE]

\* the example has lines left
DocRunning == doc.ex # "none" /\ doc.at <= Len(DocExamples[doc.ex])

\* the line the example is at
DocLine == DocExamples[doc.ex][doc.at]

\* the analog source an enable_* line switches on
DocSource(line) ==
    CASE line = "enable_tsen" -> "TSEN"
      [] line = "enable_vref" -> "VREFEN"
      [] line = "enable_vbat" -> "VBATEN"
      [] OTHER -> "NONE"

\* the call of the current line has been made and has returned
DocReturned ==
    IF DocSource(DocLine) # "NONE"
    THEN DocSource(DocLine) \in ccr
    ELSE call.fn = DocLine /\ call.done

\* the application makes the call of the current line
doc_call ==
    /\ DocRunning /\ pc = "idle" /\ ~DocReturned
    /\ \/ DocLine = "enable" /\ enable_call("enable")
       \/ DocLine = "calibrate" /\ start_disable_call("calibrate")
       \/ DocLine = "set_max_sample_time" /\ set_max_sample_time
       \/ DocSource(DocLine) # "NONE" /\ enable_source(DocSource(DocLine))
       \/ DocLine \in DocMeasurements /\ meas_call(DocLine)

\* the call has returned: the application goes on to the next line
doc_next ==
    /\ DocRunning /\ pc = "idle" /\ DocReturned
    /\ doc' = [doc EXCEPT !.at = @ + 1]
    /\ UNCHANGED <<hw, nvic, ts_cal, dbg, pc, poll, call, adc_result, waker,
                   woken, flash, radio>>

NextDoc ==
    \/ doc_call \/ doc_next
    \/ HwReady \/ HwLatch \/ HwConvert \/ HwCalDone
    \/ enable_wait
    \/ start_disable_addis
    \/ setup_calibrate \/ delay_us \/ start_calibrate \/ calibrate_wait
    \/ cfg_ch_seq \/ data

SpecDoc == InitDoc /\ [][NextDoc]_vars

\* the debug assertions of a call an example makes
DocRequired(fn) ==
    IF fn = "set_max_sample_time" THEN "ADSTART" \notin cr
    ELSE IF fn \in DocMeasurements THEN Required(fn)
    ELSE TRUE

\* C26: every call a documented example makes finds its debug-time
\* preconditions holding; in particular the converter is enabled (ADEN set)
\* in the step in which the example calls its measurement, also in the
\* examples that calibrate first.
C26_DocExamplesMeetPreconditions ==
    [][\A fn \in DocMeasurements \cup {"set_max_sample_time"} :
          Entered(fn) => DocRequired(fn) /\ pc' # "panic"]_vars

----------------------------------------------------------------------------
(* Flash page addressing (flash.rs).  usize is 32 bits wide on the target;  *)
(* the largest value formed here is FLASH_START + 255 * 2048, so no        *)
(* operation below can wrap.                                               *)

FLASH_START == 134217728

SIZE == 2048

\* flash::num_pages: (flash_size_kibibyte() / 2) as u8
num_pages == (fsize \div 2) % 256

\* a faulty variant of from_byte_offset: an offset inside a page is rounded
\* down to the page
from_byte_offset_floor(offset) ==
    LET idx == offset \div SIZE
    IN  IF idx >= num_pages THEN None ELSE Some([idx |-> idx % 256])

\* Page::from_index
from_index(idx) ==
    IF idx >= num_pages THEN None ELSE Some([idx |-> idx])

\* Page::from_byte_offset
from_byte_offset(offset) ==
    IF offset % SIZE = 0
    THEN LET idx == offset \div SIZE
         IN  IF idx >= num_pages THEN None ELSE Some([idx |-> idx % 256])
    ELSE None

\* usize::checked_sub
checked_sub(a, b) == IF a >= b THEN <<a - b>> ELSE <<>>

\* Page::from_addr
from_addr(a) ==
    LET offset == checked_sub(a, FLASH_START)
    IN  IF offset # <<>> THEN from_byte_offset(offset[1]) ELSE None

\* Page::to_index
to_index(p) == p.idx

\* Page::addr
addr(p) == p.idx * SIZE + FLASH_START

\* the flash sizes of the device family in KiB
FlashSizes == {64, 128, 256}

\* the byte offsets and the addresses the lookups are swept over: page
\* starts, their neighbours, the first page past the end of each size
OffsetSamples ==
    {0, 1, 2047, 2048, 2049, 4096, 31 * 2048, 32 * 2048, 63 * 2048, 64 * 2048,
     127 * 2048, 127 * 2048 + 4, 128 * 2048, 255 * 2048, 256 * 2048,
     256 * 2048 + 2048}

AddrSamples ==
    {0, 2048, FLASH_START - 2048, FLASH_START - 1, 2147483647}
        \cup {FLASH_START + o : o \in OffsetSamples}

InitPage ==
    /\ cr = {} /\ isr = {} /\ ier = {} /\ ccr = {}
    /\ chselr = 0 /\ ch_pending = FALSE /\ applied = 0
    /\ smpr = 0 /\ dr = 0 /\ calfact = 0 /\ cfgr1 = {} /\ starting = FALSE
    /\ nvic = FALSE
    /\ ts_cal \in Anchors
    /\ dbg = FALSE
    /\ pc = "idle" /\ poll = "none"
    /\ adc_result = {} /\ waker = FALSE /\ woken = FALSE
    /\ doc = NoDoc
    /\ fcr = {"LOCK"} /\ fpnb = 0 /\ fsr = {}
    /\ fmem = [w \in RowWords |-> ErasedWord]
    /\ fpc = "none" /\ fcall = NoFlashCall
    /\ fsize \in FlashSizes
    /\ RadioReset
    /\ call = [Begin("new") EXCEPT !.done = TRUE]

\* a call of one of the three checked constructors of Page
page_from_index(idx) ==
    /\ fcall' = [NoFlashCall EXCEPT !.op = "from_index", !.arg = idx,
                                    !.opt = from_index(idx)]
    /\ UNCHANGED <<adc, fcr, fpnb, fsr, fmem, fpc, fsize, radio>>

page_from_byte_offset(offset) ==
    /\ fcall' = [NoFlashCall EXCEPT !.op = "from_byte_offset", !.arg = offset,
                                    !.opt = from_byte_offset(offset)]
    /\ UNCHANGED <<adc, fcr, fpnb, fsr, fmem, fpc, fsize, radio>>

page_from_addr(a) ==
    /\ fcall' = [NoFlashCall EXCEPT !.op = "from_addr", !.arg = a,
                                    !.opt = from_addr(a)]
    /\ UNCHANGED <<adc, fcr, fpnb, fsr, fmem, fpc, fsize, radio>>

\* p.addr() of the page a constructor has returned
page_addr ==
    /\ fcall.op \in {"from_index", "from_byte_offset", "from_addr"}
    /\ fcall.opt # None
    /\ fcall' = [NoFlashCall EXCEPT !.op = "addr", !.arg = to_index(fcall.opt[1]),
                                    !.src = fcall.opt,
                                    !.addr = addr(fcall.opt[1])]
    /\ UNCHANGED <<adc, fcr, fpnb, fsr, fmem, fpc, fsize, radio>>

\* Page::from_addr(p.addr())
page_from_addr_back ==
    /\ fcall.op = "addr"
    /\ fcall' = [fcall EXCEPT !.op = "from_addr", !.arg = fcall.addr,
                              !.opt = from_addr(fcall.addr)]
    /\ UNCHANGED <<adc, fcr, fpnb, fsr, fmem, fpc, fsize, radio>>

NextPage ==
    \/ \E idx \in 0 .. 255 : page_from_index(idx)
    \/ \E offset \in OffsetSamples : page_from_byte_offset(offset)
    \/ \E a \in AddrSamples : page_from_addr(a)
    \/ page_addr
    \/ page_from_addr_back

SpecPage == InitPage /\ [][NextPage]_vars

\* an offset that is the start of a page of the device
PageOffset(o) == o % 2048 = 0 /\ o \div 2048 < num_pages

\* C27: Page::from_index(i) is Some exactly when i < num_pages();
\* Page::from_byte_offset(o) is Some exactly when o is a multiple of 2048
\* with o / 2048 < num_pages(); Page::from_addr(a) is Some exactly when
\* a >= 0x0800_0000 and a - 0x0800_0000 is such an offset; each returns the
\* page of that index.  For a page p so obtained p.addr() is
\* 0x0800_0000 + 2048 * index and Page::from_addr(p.addr()) is Some(p).
C27_PageAddressing ==
    /\ fcall.op = "from_index" =>
          /\ fcall.opt # None <=> fcall.arg < num_pages
          /\ fcall.opt # None => fcall.opt = Some([idx |-> fcall.arg])
    /\ fcall.op = "from_byte_offset" =>
          /\ fcall.opt # None <=> PageOffset(fcall.arg)
          /\ fcall.opt # None => fcall.opt = Some([idx |-> fcall.arg \div 2048])
    /\ fcall.op = "from_addr" =>
          /\ fcall.opt # None <=>
                 fcall.arg >= 134217728 /\ PageOffset(fcall.arg - 134217728)
          /\ fcall.opt # None =>
                 fcall.opt = Some([idx |-> (fcall.arg - 134217728) \div 2048])
          /\ fcall.src # None => fcall.opt = fcall.src
    /\ fcall.op = "addr" =>
          fcall.addr = 134217728 + 2048 * fcall.src[1].idx

\* the address of the last page of a 256 KiB device has been turned back
\* into that page
C27_Witness ==
    /\ fsize = 256
    /\ fcall.op = "from_addr" /\ fcall.src = Some([idx |-> 127])
    /\ fcall.arg = 134217728 + 127 * 2048
    /\ fcall.opt = fcall.src

----------------------------------------------------------------------------
(* The flash driver (flash.rs).  The application programs one row of 64    *)
(* words, the first of page RowPage; fmem holds that row.  A source buffer *)
(* is 64 words in address order: a u64 at double-word index d of a buffer  *)
(* has its low word at word 2d and its high word at word 2d + 1.           *)

FlashOps == {"standard_program", "fast_program", "page_erase", "mass_erase"}

\* the page the programmed row belongs to (the test suite uses 64..126)
RowPage == 64

\* the bit of FLASH_CR each operation sets and clears again
ModeBit(op) ==
    CASE op = "standard_program" -> "PG"
      [] op = "fast_program" -> "FSTPG"
      [] op = "page_erase" -> "PER"
      [] op = "mass_erase" -> "MER"

\* the number of words each programming operation writes
WordsOf(op) == IF op = "standard_program" THEN 2 ELSE 64

\* the source buffers of the application: "a" and "b" hold 64 different
\* words each, "z" holds zeros (every bit 0)
BufferNames == {"a", "b", "z"}

BitsOf(n) == {b \in 0 .. 5 : (n \div (2 ^ b)) % 2 = 1}

Buffer(name, w) ==
    CASE name = "a" -> BitsOf(w) \cup {31}
      [] name = "b" -> BitsOf(63 - w) \cup {30}
      [] name = "z" -> 0 .. 31

\* a write to FLASH_CR: ignored while the register is locked
FlashCrWrite(old, w) == IF "LOCK" \in old THEN old ELSE w

\* the flags clear_all_err writes 1 to: the error flags read by
\* wait_for_not_busy, and RDERR, FASTERR, OPERR, EOP of which EOP is held
ClearedFlags == FlashErrBits \cup {"EOP"}

\* a faulty entry that tests the suspend flag before the busy flag
EntryCheck_suspend_first(sr) ==
    IF "PESD" \in sr THEN "Suspend"
    ELSE IF "BSY" \in sr THEN "Busy"
    ELSE "none"

\* the entry of every operation: Err(Busy), else Err(Suspend), else go on
EntryCheck(sr) ==
    IF "BSY" \in sr THEN "Busy"
    ELSE IF "PESD" \in sr THEN "Suspend"
    ELSE "none"

\* a faulty result that tests the sequence flag first
ErrorOf_seq_first(sr) ==
    IF "PGSERR" \in sr THEN "Seq"
    ELSE IF "PROGERR" \in sr THEN "Prog"
    ELSE IF "WRPERR" \in sr THEN "Wp"
    ELSE IF "PGAERR" \in sr THEN "Align"
    ELSE IF "SIZERR" \in sr THEN "Size"
    ELSE IF "MISSERR" \in sr THEN "Miss"
    ELSE "Ok"

\* wait_for_not_busy once BSY reads 0: the first error flag in the order
\* the code tests them, or Ok
ErrorOf(sr) ==
    IF "PROGERR" \in sr THEN "Prog"
    ELSE IF "WRPERR" \in sr THEN "Wp"
    ELSE IF "PGAERR" \in sr THEN "Align"
    ELSE IF "SIZERR" \in sr THEN "Size"
    ELSE IF "MISSERR" \in sr THEN "Miss"
    ELSE IF "PGSERR" \in sr THEN "Seq"
    ELSE "Ok"

\* the words a programming call writes to
TargetWords(c) ==
    IF c.op = "standard_program" THEN {2 * c.to, 2 * c.to + 1}
    ELSE IF c.op = "fast_program" THEN RowWords
    ELSE {}

\* a flash call as it is entered: entry is FLASH_SR as the call read it,
\* erased whether the words it is to program were all erased, writes the
\* word writes made so far (target word, value, programming bits of
\* FLASH_CR at the write), ret the value returned ("none" until it returns)
FlashBegin(op, from, to) ==
    LET c == [NoFlashCall EXCEPT !.op = op, !.from = from, !.to = to,
                                 !.entry = fsr]
    IN  [c EXCEPT !.erased = \A w \in TargetWords(c) : fmem[w] = ErasedWord]

\* a faulty copy that reads the first word of the source for every word
SourceWord_first(c, k) ==
    IF c.op = "standard_program"
    THEN Buffer(c.from[1], 2 * c.from[2])
    ELSE Buffer(c.from[1], 0)

\* the value a programming call reads for its k-th word (k from 0)
SourceWord(c, k) ==
    IF c.op = "standard_program"
    THEN Buffer(c.from[1], 2 * c.from[2] + k)
    ELSE Buffer(c.from[1], k)

\* a lock that writes FLASH_CR back without setting LOCK
drop_unlocked ==
    /\ fpc = "idle"
    /\ fcr' = fcr
    /\ fpc' = "none"
    /\ UNCHANGED <<adc, fpnb, fsr, fmem, fcall, fsize, radio>>

\* Flash::unlock: the two keys written to FLASH_KEYR clear LOCK
unlock ==
    /\ fpc = "none"
    /\ fcr' = fcr \ {"LOCK"}
    /\ fpc' = "idle"
    /\ fcall' = [NoFlashCall EXCEPT !.op = "unlock", !.ret = "Ok"]
    /\ UNCHANGED <<adc, fpnb, fsr, fmem, fsize, radio>>

\* impl Drop for Flash: cr.modify(|_, w| w.lock().set_bit())
drop ==
    /\ fpc = "idle"
    /\ fcr' = fcr \cup {"LOCK"}
    /\ fpc' = "none"
    /\ UNCHANGED <<adc, fpnb, fsr, fmem, fcall, fsize, radio>>

\* the entry of standard_program, fast_program, page_erase and mass_erase:
\* let sr = self.sr(); the two early returns
flash_call(op, from, to) ==
    /\ fpc = "idle"
    /\ fcall' = [FlashBegin(op, from, to) EXCEPT !.ret = EntryCheck(fsr)]
    /\ fpc' = IF EntryCheck(fsr) = "none" THEN "clear" ELSE "idle"
    /\ UNCHANGED <<adc, fcr, fpnb, fsr, fmem, fsize, radio>>

\* self.clear_all_err()
clear_all_err ==
    /\ fpc = "clear"
    /\ fsr' = fsr \ ClearedFlags
    /\ fpc' = "mode"
    /\ UNCHANGED <<adc, fcr, fpnb, fmem, fcall, fsize, radio>>

\* cr.modify setting PG or FSTPG, or PER with PNB and STRT, or MER with
\* STRT; STRT starts the erase, which raises BSY
set_mode ==
    /\ fpc = "mode"
    /\ IF fcall.op \in {"page_erase", "mass_erase"}
       THEN /\ fcr' = FlashCrWrite(fcr, fcr \cup {ModeBit(fcall.op), "STRT"})
            /\ fpnb' = IF fcall.op = "page_erase" /\ "LOCK" \notin fcr
                       THEN fcall.to ELSE fpnb
            /\ fsr' = IF "STRT" \in fcr' THEN fsr \cup {"BSY"} ELSE fsr
            /\ fpc' = "wait"
       ELSE /\ fcr' = FlashCrWrite(fcr, fcr \cup {ModeBit(fcall.op)})
            /\ fpc' = "write"
            /\ UNCHANGED <<fpnb, fsr>>
    /\ UNCHANGED <<adc, fmem, fcall, fsize, radio>>

\* one write_volatile of a u32: the next word of the source goes to the
\* next word of the target; the last word of the double-word (of the row,
\* in fast programming) starts the programming, which raises BSY; a write
\* with neither PG nor FSTPG set raises PGSERR
write_word ==
    /\ fpc = "write"
    /\ LET k == Len(fcall.writes)
           first == IF fcall.op = "standard_program" THEN 2 * fcall.to ELSE 0
           last == k + 1 = WordsOf(fcall.op)
           armed == fcr \cap {"PG", "FSTPG"} # {}
       IN  /\ fcall' = [fcall EXCEPT !.writes =
                          Append(@, [w |-> first + k, v |-> SourceWord(fcall, k),
                                     mode |-> fcr \cap {"PG", "FSTPG"}])]
           /\ fsr' = IF ~armed THEN fsr \cup {"PGSERR"}
                     ELSE IF last THEN fsr \cup {"BSY"}
                     ELSE fsr
           /\ fpc' = IF last THEN "wait" ELSE "write"
    /\ UNCHANGED <<adc, fcr, fpnb, fmem, fsize, radio>>

\* the programming completes: the words written reach the flash if every
\* target word was erased (or the data is all zeros); otherwise PROGERR
HwProgram ==
    /\ fpc = "wait" /\ "BSY" \in fsr
    /\ fcall.op \in {"standard_program", "fast_program"}
    /\ LET ws == fcall.writes
           erased == \A i \in 1 .. Len(ws) : fmem[ws[i].w] = ErasedWord
           zeros == \A i \in 1 .. Len(ws) : ws[i].v = 0 .. 31
       IN  IF erased \/ zeros
           THEN /\ fmem' = [x \in RowWords |->
                              IF \E i \in 1 .. Len(ws) : ws[i].w = x
                              THEN fmem[x] \cup
                                   (CHOOSE v \in {ws[i].v : i \in 1 .. Len(ws)} :
                                       \E i \in 1 .. Len(ws) :
                                          ws[i].w = x /\ ws[i].v = v)
                              ELSE fmem[x]]
                /\ fsr' = fsr \ {"BSY"}
           ELSE /\ fmem' = fmem
                /\ fsr' = (fsr \ {"BSY"}) \cup {"PROGERR"}
    /\ UNCHANGED <<adc, fcr, fpnb, fpc, fcall, fsize, radio>>

\* the erase completes: the row is erased by a mass erase and by the erase
\* of its page; hardware clears STRT and BSY
HwErase ==
    /\ fpc = "wait" /\ "BSY" \in fsr
    /\ fcall.op \in {"page_erase", "mass_erase"}
    /\ fmem' = IF "MER" \in fcr \/ ("PER" \in fcr /\ fpnb = RowPage)
               THEN [x \in RowWords |-> ErasedWord]
               ELSE fmem
    /\ fcr' = fcr \ {"STRT"}
    /\ fsr' = fsr \ {"BSY"}
    /\ UNCHANGED <<adc, fpnb, fpc, fcall, fsize, radio>>

\* wait_for_not_busy: loops until BSY reads 0, then the error or Ok
wait_for_not_busy ==
    /\ fpc = "wait"
    /\ "BSY" \notin fsr
    /\ fcall' = [fcall EXCEPT !.ret = ErrorOf(fsr)]
    /\ fpc' = "unmode"
    /\ UNCHANGED <<adc, fcr, fpnb, fsr, fmem, fsize, radio>>

\* a faulty return that clears the mode bit only on success
clear_mode_on_ok ==
    /\ fpc = "unmode"
    /\ fcr' = IF fcall.ret = "Ok"
              THEN FlashCrWrite(fcr, fcr \ {ModeBit(fcall.op)})
              ELSE fcr
    /\ fpc' = "idle"
    /\ UNCHANGED <<adc, fpnb, fsr, fmem, fcall, fsize, radio>>

\* cr.modify clearing the mode bit; the call returns ret
clear_mode ==
    /\ fpc = "unmode"
    /\ fcr' = FlashCrWrite(fcr, fcr \ {ModeBit(fcall.op)})
    /\ fpc' = "idle"
    /\ UNCHANGED <<adc, fpnb, fsr, fmem, fcall, fsize, radio>>

\* the other bus master (CPU2) starts and ends a flash operation of its
\* own, or suspends programming (PES), between the calls of this driver
other_busy ==
    /\ fpc \in {"none", "idle"}
    /\ fsr' = IF "BSY" \in fsr THEN fsr \ {"BSY"} ELSE fsr \cup {"BSY"}
    /\ UNCHANGED <<adc, fcr, fpnb, fmem, fpc, fcall, fsize, radio>>

other_suspend ==
    /\ fpc \in {"none", "idle"}
    /\ fsr' = IF "PESD" \in fsr THEN fsr \ {"PESD"} ELSE fsr \cup {"PESD"}
    /\ UNCHANGED <<adc, fcr, fpnb, fmem, fpc, fcall, fsize, radio>>

\* the arguments the application passes
StandardFrom == {<<"a", 0>>, <<"a", 5>>, <<"z", 0>>}
StandardTo == {0, 31}
FastFrom == {"a", "b"}
ErasePages == {RowPage, RowPage + 1}

NextFlash ==
    \/ unlock \/ drop
    \/ \E from \in StandardFrom, to \in StandardTo :
          flash_call("standard_program", from, to)
    \/ \E name \in FastFrom : flash_call("fast_program", <<name, 0>>, 0)
    \/ \E page \in ErasePages : flash_call("page_erase", <<"z", 0>>, page)
    \/ flash_call("mass_erase", <<"z", 0>>, 0)
    \/ clear_all_err \/ set_mode \/ write_word
    \/ HwProgram \/ HwErase
    \/ wait_for_not_busy \/ clear_mode
    \/ other_busy \/ other_suspend

SpecFlash == Init /\ [][NextFlash]_vars

\* the step in which the application calls the flash operation op
FlashEntered(op) ==
    /\ fpc = "idle" /\ fpc' \in {"idle", "clear"}
    /\ fcall'.op = op
    /\ <<fpc, fcall>>' # <<fpc, fcall>>

\* the call has returned in the step of the call and has written neither a
\* register nor the flash
ReturnedUntouched ==
    /\ fpc' = "idle"
    /\ fsr' = fsr /\ fcr' = fcr /\ fpnb' = fpnb
    /\ fmem' = fmem
    /\ fcall'.writes = <<>>

\* C28: standard_program, fast_program, page_erase and mass_erase return
\* Err(Busy) when BSY is set on entry, otherwise Err(Suspend) when PESD is
\* set, and then have written nothing: the error flags are as they were, no
\* mode bit is set and the flash is unchanged.  With neither flag set the
\* call goes on.
C28_BusyOrSuspendWritesNothing ==
    [][\A op \in FlashOps :
          FlashEntered(op) =>
              /\ "BSY" \in fsr =>
                     fcall'.ret = "Busy" /\ ReturnedUntouched
              /\ ("BSY" \notin fsr /\ "PESD" \in fsr) =>
                     fcall'.ret = "Suspend" /\ ReturnedUntouched
              /\ fsr \cap {"BSY", "PESD"} = {} =>
                     fcall'.ret = "none" /\ fpc' # "idle"]_vars

\* fast_program has returned Err(Suspend) with the PROGERR flag of an
\* earlier failed program still set and no mode bit set
C28_Witness ==
    /\ fpc = "idle"
    /\ fcall.op = "fast_program" /\ fcall.ret = "Suspend"
    /\ "PESD" \in fsr /\ "PROGERR" \in fsr
    /\ fcr = {}

\* C29: FLASH_CR.LOCK is clear exactly while a Flash value lives: it is
\* cleared by Flash::unlock, stays clear through every call, and is set by
\* the drop of the value on every path, after a failed program or erase as
\* after a successful one.
C29_LockedWheneverDropped ==
    /\ [](fpc = "none" <=> "LOCK" \in fcr)
    /\ [][fpc' = "none" => "LOCK" \in fcr']_vars

\* the Flash value has been dropped after standard_program returned
\* Err(Prog): the flash is locked, the error flag still set
C29_Witness ==
    /\ fpc = "none" /\ "LOCK" \in fcr
    /\ fcall.op = "standard_program" /\ fcall.ret = "Prog"
    /\ "PROGERR" \in fsr

\* the step in which a flash operation returns after its wait
FlashReturn(op) ==
    /\ fcall.op = op
    /\ fpc = "unmode" /\ fpc' = "idle"

\* C30: when standard_program(from, to), entered on an erased double-word,
\* returns Ok, it has written the low word of the source and then its high
\* word, both with PG set, and the two flash words at `to` hold the two
\* source words; when fast_program, entered on an erased row, returns Ok, it
\* has written the 64 source words in ascending order with FSTPG set and
\* the 64 flash words at `to` hold the 64 source words.
C30_ProgramCopiesSource ==
    [][/\ (FlashReturn("standard_program") /\ fcall.ret = "Ok" /\ fcall.erased) =>
              LET name == fcall.from[1]
                  d == fcall.from[2]
                  t == fcall.to
              IN  /\ Len(fcall.writes) = 2
                  /\ fcall.writes[1].w = 2 * t
                  /\ fcall.writes[1].v = Buffer(name, 2 * d)
                  /\ fcall.writes[2].w = 2 * t + 1
                  /\ fcall.writes[2].v = Buffer(name, 2 * d + 1)
                  /\ \A i \in 1 .. 2 : "PG" \in fcall.writes[i].mode
                  /\ fmem'[2 * t] = Buffer(name, 2 * d)
                  /\ fmem'[2 * t + 1] = Buffer(name, 2 * d + 1)
                  /\ "PG" \notin fcr'
       /\ (FlashReturn("fast_program") /\ fcall.ret = "Ok" /\ fcall.erased) =>
              LET name == fcall.from[1]
              IN  /\ Len(fcall.writes) = 64
                  /\ \A i \in 1 .. 64 :
                        /\ fcall.writes[i].w = i - 1
                        /\ fcall.writes[i].v = Buffer(name, i - 1)
                        /\ "FSTPG" \in fcall.writes[i].mode
                  /\ \A k \in 0 .. 63 : fmem'[k] = Buffer(name, k)
                  /\ "FSTPG" \notin fcr']_vars

\* standard_program has returned Ok after programming the u64 at
\* double-word 5 of buffer "a" into the erased last double-word of the row
C30_Witness ==
    /\ fpc = "idle"
    /\ fcall.op = "standard_program" /\ fcall.ret = "Ok" /\ fcall.erased
    /\ fcall.from = <<"a", 5>> /\ fcall.to = 31
    /\ fmem[62] = Buffer("a", 10) /\ fmem[63] = Buffer("a", 11)
    /\ fmem[62] # fmem[63]
----------------------------------------------------------------------------
(* Adc::enable from every lifecycle state.                                  *)

\* the step in which enable() returns: at once when start_enable found ADEN
\* set, otherwise when the wait for ADRDY ends
EnableReturned ==
    \/ EnableReturn("enable")
    \/ Entered("enable") /\ pc' = "idle" /\ call'.done

\* the converter is enabled and no disable request is pending
EnabledSteady == "ADEN" \in cr /\ "ADDIS" \notin cr

\* C31: whenever enable() returns the converter is enabled with no disable
\* pending, also when it is called right after start_disable() without
\* waiting for is_disabled(); and an enabled converter stays enabled until
\* the next disable request (start_disable, calibrate) or reset.
C31_EnableReturnsEnabled ==
    /\ [][EnableReturned => EnabledSteady']_vars
    /\ [][(EnabledSteady /\ ~EnabledSteady') => pc = "sd_aden"]_vars
----------------------------------------------------------------------------
(* What an asynchronous wait delivers, every future being polled to        *)
(* completion.                                                             *)

\* the calls that wait on the mailbox
AwaitPcs == {"en_await", "cfg_await", "cal_await", "data_await"}

\* the interrupt each wait arms: ier.write of adrdyie (aio_enable), ccrdyie
\* (aio_cfg_ch_seq), eocalie (aio_calibrate), eocie (aio_data)
ArmedFlag(p) ==
    CASE p = "en_await"   -> "ADRDY"
      [] p = "cfg_await"  -> "CCRDY"
      [] p = "cal_await"  -> "EOCAL"
      [] p = "data_await" -> "EOC"

\* the step of aio::poll that returns Poll::Ready
WaitResolves == pc \in AwaitPcs /\ poll = "swap" /\ poll' = "ready"

\* the step in which aio_data, resumed, reads ADC_DR
AioDataReads == pc = "data_await" /\ poll = "ready" /\ pc' # pc

----------------------------------------------------------------------------
(* ADC_IER between arming and handler.                                      *)

\* the step of an asynchronous operation that writes ADC_IER
Arming == pc' \in AwaitPcs /\ pc' # pc /\ ier' = {ArmedFlag(pc')}

\* a run of the handler that serves the interrupt
Served == IrqPending /\ adc_result' = isr /\ ier' = {}

\* C33: at most one interrupt enable of the peripheral is set, and one is
\* set only from the step of an asynchronous operation that arms it to the
\* handler run that serves it: ADC_IER changes only by an arming, which
\* leaves exactly the one enable of the wait it begins, and by the handler,
\* which leaves none; while an enable is set the operation that armed it is
\* waiting and the handler has not yet posted its word.
C33_OneEnableArmedToServed ==
    /\ [](/\ Cardinality(ier) <= 1
          /\ ier # {} =>
                /\ pc \in AwaitPcs /\ ier = {ArmedFlag(pc)}
                /\ adc_result = {} /\ poll # "ready")
    /\ [][ier' # ier => (Arming \/ Served)]_vars

\* aio_vref waits for its conversion: the handler has served the channel
\* selection and cleared the enables, and aio_data has armed EOC alone
C33_Witness ==
    /\ pc = "data_await" /\ call.fn = "aio_vref"
    /\ "CCRDY" \in call.word
    /\ ier = {"EOC"} /\ adc_result = {}
----------------------------------------------------------------------------
(* The converter between completed measurements.                            *)

\* the step in which a measurement returns its sample
MeasReturn ==
    /\ call.fn \in Measurements /\ pc \in {"data_wait", "data_await"}
    /\ pc' = "idle" /\ call'.done

\* no conversion is running and no result is waiting to be read
NoConversion == "ADSTART" \notin cr /\ "EOC" \notin isr

\* C34: when a measurement, blocking or async, returns, ADSTART is clear
\* and the end-of-conversion flag is clear; they stay so until the next
\* call, so the next measurement starts with no conversion outstanding and
\* the precondition of set_sample_times (no conversion active) holds.
C34_NoConversionBetweenMeasurements ==
    /\ [][MeasReturn => NoConversion']_vars
    /\ []((pc = "idle" /\ call.fn \in Measurements /\ call.done) =>
              (NoConversion /\ Required("set_sample_times")))
    /\ [][\A fn \in Measurements : Entered(fn) => NoConversion]_vars

\* vbat() has returned the sample of its conversion: the sequence has ended,
\* the start bit and the end-of-conversion flag are clear
C34_Witness ==
    /\ pc = "idle" /\ call.fn = "vbat" /\ call.done
    /\ "EOS" \in isr /\ call.val = dr /\ dr > 0
    /\ NoConversion
----------------------------------------------------------------------------
(* The result of a flash operation, for every status the hardware can end   *)
(* it with.                                                                *)

\* the flags wait_for_not_busy reads (mod flags)
ReportedErrBits ==
    {"PROGERR", "WRPERR", "PGAERR", "SIZERR", "PGSERR", "MISSERR"}

\* the operation ends in error: the hardware clears BSY (and STRT) and
\* raises one or more error flags; the flash is not changed
HwFault(E) ==
    /\ fpc = "wait" /\ "BSY" \in fsr
    /\ fsr' = (fsr \ {"BSY"}) \cup E
    /\ fcr' = fcr \ {"STRT"}
    /\ UNCHANGED <<adc, fpnb, fmem, fpc, fcall, fsize, radio>>

NextWait ==
    \/ unlock \/ drop
    \/ flash_call("standard_program", <<"a", 0>>, 0)
    \/ flash_call("fast_program", <<"a", 0>>, 0)
    \/ flash_call("page_erase", <<"z", 0>>, RowPage)
    \/ flash_call("mass_erase", <<"z", 0>>, 0)
    \/ clear_all_err \/ set_mode \/ write_word
    \/ HwProgram \/ HwErase
    \/ \E E \in (SUBSET ReportedErrBits) \ {{}} : HwFault(E)
    \/ wait_for_not_busy \/ clear_mode
    \/ other_busy

SpecWait == Init /\ [][NextWait]_vars

\* the step in which a flash operation that was started returns
StartedReturn == fpc = "unmode" /\ fpc' = "idle"

\* the result against the status by the stated priority
ByPriority(sr, ret) ==
    /\ ret = "Prog" <=> "PROGERR" \in sr
    /\ ret = "Wp" <=> ("WRPERR" \in sr /\ "PROGERR" \notin sr)
    /\ ret = "Align" <=>
          ("PGAERR" \in sr /\ sr \cap {"PROGERR", "WRPERR"} = {})
    /\ ret = "Size" <=>
          ("SIZERR" \in sr /\ sr \cap {"PROGERR", "WRPERR", "PGAERR"} = {})
    /\ ret = "Miss" <=>
          ("MISSERR" \in sr
              /\ sr \cap {"PROGERR", "WRPERR", "PGAERR", "SIZERR"} = {})
    /\ ret = "Seq" <=>
          ("PGSERR" \in sr
              /\ sr \cap {"PROGERR", "WRPERR", "PGAERR", "SIZERR", "MISSERR"}
                     = {})
    /\ ret = "Ok" <=> sr \cap ReportedErrBits = {}

\* C35: a flash operation that has been started returns only with BSY
\* clear, and its result follows the status by fixed priority: Prog, then
\* Wp, then Align, then Size, then Miss; Seq only when none of those flags
\* is set, Ok only when none of the six error flags is set.
C35_ResultByPriority ==
    [][StartedReturn =>
          /\ "BSY" \notin fsr
          /\ ByPriority(fsr, fcall'.ret)]_vars

\* an operation has returned Err(Wp) with the alignment, miss and sequence
\* flags raised as well
C35_Witness ==
    /\ fpc = "idle" /\ fcall.op \in FlashOps /\ fcall.ret = "Wp"
    /\ fsr \cap ReportedErrBits = {"WRPERR", "PGAERR", "MISSERR", "PGSERR"}
----------------------------------------------------------------------------
(* The programming and erase mode bits of FLASH_CR between operations.      *)

ModeBits == {"PG", "FSTPG", "PER", "MER"}

\* C36: a flash operation that has passed its entry checks returns, with Ok
\* or with an error, only after clearing the mode bit it set (PG, FSTPG, PER
\* or MER), and between operations no mode bit is set.
C36_ModeBitClearedOnReturn ==
    /\ [][StartedReturn =>
             /\ ModeBit(fcall.op) \notin fcr'
             /\ fcall'.ret # "none"]_vars
    /\ [][(fpc = "mode" /\ fpc' # fpc /\ "LOCK" \notin fcr) =>
             ModeBit(fcall.op) \in fcr']_vars
    /\ [](fpc \in {"none", "idle"} => fcr \cap ModeBits = {})

\* fast_program has written its 64 words with FSTPG set and has returned
\* Err(Size): FSTPG is clear again although the operation failed
C36_Witness ==
    /\ fpc = "idle" /\ fcall.op = "fast_program" /\ fcall.ret = "Size"
    /\ "SIZERR" \in fsr
    /\ Len(fcall.writes) = 64 /\ fcall.writes[64].mode = {"FSTPG"}
    /\ fcr \cap ModeBits = {}
----------------------------------------------------------------------------
(* The Sx126x radio: Transmit and Receive.  The commands of SubGhz go over *)
(* SPI and each may fail; a failed command leaves the radio as it was.      *)

\* the lengths of the data passed to start_transmit
DataLens == {0, 1, 255, 256, 300}

RadioOps == {"start_transmit", "check_transmit", "start_receive",
             "check_receive"}

\* `as u8`
AsU8(n) == n % 256

\* a call of the radio driver is entered
radio_call(op, n) ==
    /\ rpc = "idle"
    /\ rcall' = [NoRadioCall EXCEPT !.op = op, !.len = n]
    /\ rlog' = <<>>
    /\ rpc' = CASE op = "start_transmit" -> "params"
                [] op = "start_receive"  -> "rfs_rx"
                [] OTHER                 -> "irq_status"
    /\ UNCHANGED <<adc, flash, rirq, rmode>>

\* a command of SubGhz followed by `?`: on Err the call returns the error
Command(cmd, arg, ok, next) ==
    /\ rlog' = Append(rlog, [cmd |-> cmd, arg |-> arg, ok |-> ok])
    /\ rpc' = IF ok THEN next ELSE "idle"
    /\ UNCHANGED <<adc, flash>>

\* self.sg.set_lora_packet_params(&lora_packet_params)? with
\* set_payload_len(data.len() as u8)
set_lora_packet_params(ok) ==
    /\ rpc = "params"
    /\ Command("set_lora_packet_params", AsU8(rcall.len), ok, "buffer")
    /\ rcall' = IF ok THEN rcall ELSE [rcall EXCEPT !.ret = "Err"]
    /\ UNCHANGED <<rirq, rmode>>

\* self.sg.write_buffer(TX_BUF_OFFSET, data)?: arg is the number of bytes
write_buffer(ok) ==
    /\ rpc = "buffer"
    /\ Command("write_buffer", rcall.len, ok, "rfs_tx")
    /\ rcall' = IF ok THEN rcall ELSE [rcall EXCEPT !.ret = "Err"]
    /\ UNCHANGED <<rirq, rmode>>

\* self.rfs.set_tx()
rfs_set_tx ==
    /\ rpc = "rfs_tx"
    /\ Command("rfs_set_tx", 0, TRUE, "tx")
    /\ UNCHANGED <<rcall, rirq, rmode>>

\* self.sg.set_tx(Timeout::from_millis_sat(100))?; Ok(())
sg_set_tx(ok) ==
    /\ rpc = "tx"
    /\ Command("set_tx", 100, ok, "idle")
    /\ rcall' = [rcall EXCEPT !.ret = IF ok THEN "Ok" ELSE "Err"]
    /\ rmode' = IF ok THEN "tx" ELSE rmode
    /\ UNCHANGED rirq

\* self.rfs.set_rx()
rfs_set_rx ==
    /\ rpc = "rfs_rx"
    /\ Command("rfs_set_rx", 0, TRUE, "rx")
    /\ UNCHANGED <<rcall, rirq, rmode>>

\* self.sg.set_rx(Timeout::from_millis_sat(100))?; Ok(())
sg_set_rx(ok) ==
    /\ rpc = "rx"
    /\ Command("set_rx", 100, ok, "idle")
    /\ rcall' = [rcall EXCEPT !.ret = IF ok THEN "Ok" ELSE "Err"]
    /\ rmode' = IF ok THEN "rx" ELSE rmode
    /\ UNCHANGED rirq

\* let (_, irq_status) = self.sg.irq_status()?
irq_status(ok) ==
    /\ rpc = "irq_status"
    /\ Command("irq_status", 0, ok, "clear")
    /\ rcall' = IF ok THEN [rcall EXCEPT !.status = rirq]
                ELSE [rcall EXCEPT !.ret = "Err"]
    /\ UNCHANGED <<rirq, rmode>>

\* the bit each check tests: Irq::TxDone.mask(), Irq::RxDone.mask()
DoneBit(op) == IF op = "check_transmit" THEN "TxDone" ELSE "RxDone"

\* self.sg.clear_irq_status(irq_status)?;
\* Ok(irq_status & Irq::TxDone.mask() != 0)
clear_irq_status(ok) ==
    /\ rpc = "clear"
    /\ Command("clear_irq_status", 0, ok, "idle")
    /\ rirq' = IF ok THEN rirq \ rcall.status ELSE rirq
    /\ rcall' = [rcall EXCEPT !.ret =
                    IF ~ok THEN "Err"
                    ELSE IF DoneBit(rcall.op) \in rcall.status THEN "true"
                    ELSE "false"]
    /\ UNCHANGED rmode

\* the radio ends a transmission or a reception: the interrupt is raised
\* and the radio falls back to standby (FallbackMode::Standby)
HwRadio(f) ==
    /\ \/ rmode = "tx" /\ f \in {"TxDone", "Timeout"}
       \/ rmode = "rx" /\ f \in {"RxDone", "Timeout", "Err"}
    /\ rirq' = rirq \cup {f}
    /\ rmode' = "standby"
    /\ UNCHANGED <<adc, flash, rpc, rcall, rlog>>

NextRadio ==
    \/ \E n \in DataLens : radio_call("start_transmit", n)
    \/ \E op \in RadioOps \ {"start_transmit"} : radio_call(op, 0)
    \/ \E ok \in BOOLEAN :
          \/ set_lora_packet_params(ok) \/ write_buffer(ok) \/ sg_set_tx(ok)
          \/ sg_set_rx(ok)
          \/ irq_status(ok) \/ clear_irq_status(ok)
    \/ rfs_set_tx \/ rfs_set_rx
    \/ \E f \in IrqBits : HwRadio(f)

SpecRadio == Init /\ [][NextRadio]_vars

\* the steps of the call so far, without their outcome
Steps == [i \in 1 .. Len(rlog) |-> <<rlog[i].cmd, rlog[i].arg>>]

\* the steps of start_transmit for data of n bytes, in order
TransmitSteps(n) ==
    <<  <<"set_lora_packet_params", n>>, <<"write_buffer", n>>,
        <<"rfs_set_tx", 0>>, <<"set_tx", 100>>  >>

IsPrefix(s, t) == Len(s) <= Len(t) /\ \A i \in 1 .. Len(s) : s[i] = t[i]

\* no step follows a failed command, and the call returns the error
StopsAtFailure ==
    /\ \A i \in 1 .. Len(rlog) - 1 : rlog[i].ok
    /\ (Len(rlog) > 0 /\ ~rlog[Len(rlog)].ok) => (rpc = "idle" /\ rcall.ret = "Err")
    /\ rcall.ret = "Err" => (Len(rlog) > 0 /\ ~rlog[Len(rlog)].ok)

\* C37: start_transmit takes its steps in a fixed order: the packet
\* parameters with the payload length equal to the length of the data, the
\* payload written to the transmit buffer, the RF switch set to transmit,
\* and only then the transmit command; after a failed command no further
\* step is taken and the error is returned.  check_transmit and
\* check_receive return true exactly when the done bit was in the interrupt
\* status they read, and clear exactly the bits read.
C37_TransmitOrderAndChecks ==
    /\ [](/\ rcall.op = "start_transmit" =>
               /\ IsPrefix(Steps, TransmitSteps(rcall.len))
               /\ rcall.ret = "Ok" => Len(rlog) = 4
          /\ StopsAtFailure
          /\ (rcall.op \in {"check_transmit", "check_receive"}
                 /\ rcall.ret \in {"true", "false"}) =>
                (rcall.ret = "true" <=> DoneBit(rcall.op) \in rcall.status))
    /\ [][(rpc = "clear" /\ rpc' = "idle" /\ rcall'.ret # "Err") =>
             rirq' = rirq \ rcall.status]_vars
=============================================================================
